---- MODULE Spec2Model ----
(***************************************************************************)
(* Two-phase orchestration of ProjectArkWatson: the LangGraph detection    *)
(* graph run by DisasterDetectionWorkflow.run_monitoring_cycle, and the    *)
(* planning graph run by DisasterPlanningWorkflow.run_planning_cycle, tied *)
(* together by IntegratedDisasterManagement.                               *)
(*                                                                         *)
(* Scores are kept in hundredths (0.4 is 40), areas in 1/100 km2.          *)
(***************************************************************************)
EXTENDS Integers, Sequences, FiniteSets, TLC

\* ------------------------------------------------------------------ bounds

\* Largest value of the wall clock (in seconds) seen by create_event_record.
MaxClock == 1

\* Largest number of injected step exceptions (other than poll failures) in
\* one call of run_complete_disaster_management.
MaxFaults == 1

\* Largest number of polls that raise in a run.
MaxPollFailures == 4

\* ------------------------------------------------------- program constants

\* create_initial_state: max_retries=3
max_retries == 3

\* run_monitoring_cycle: "recursion_limit": 50
recursion_limit == 50

\* create_event_record_node: keep last 50 events
EventHistoryCap == 50

\* create_initial_state / run_monitoring_cycle: confidence_threshold default 0.7
confidence_threshold == 70

\* severity_assessment_node: critical_infrastructure_count default when the
\* lookup current_monitoring_data.get("osm_overpass") finds nothing
DefaultInfrastructure == 5

\* ------------------------------------------------------------- enumerations

APISource == {"usgs_earthquake", "noaa_weather", "fema_open", "nasa_worldview", "osm_overpass"}

SeverityLevel == {"low", "moderate", "high", "critical", "extreme"}

DetectionNodes ==
    {"api_monitoring", "data_analysis", "watsonx_classification",
     "web_search_confirmation", "severity_assessment", "safe_zone_analysis",
     "create_event_record", "trigger_planning_workflow", "wait_interval",
     "log_false_positive"}

\* get_sample_monitoring_regions gives radius 100 and density 2000; the
\* small region stays under the escalation threshold of the severity score.
\* The empty list is the "No monitoring regions configured" case.
MonitoringRegionChoices ==
    { << >>,
      << [radius_km |-> 5,   population_density |-> 10]   >>,
      << [radius_km |-> 100, population_density |-> 2000] >> }

NoClassification == [empty |-> TRUE]

\* DetectionReActAdapter.run: confirmation = None, and severity before it is set
NoConfirmation == [empty |-> TRUE]

NoSeverity == [empty |-> TRUE]

Min(a, b) == IF a < b THEN a ELSE b

\* ----------------------------------------------------------- pure functions

\* severity_assessment_node: affected_area_km2 = radius_km ** 2 * 3.14159,
\* here in hundredths of a km2 (the product is split to stay within 32 bits).
AffectedArea(region) ==
    LET r2 == region.radius_km * region.radius_km
    IN  r2 * 314 + (r2 * 159) \div 1000

\* severity_impact_analyzer: population_at_risk = int(area * density), the
\* area in hundredths (the product is split to stay within 32 bits).
PopulationAtRisk(area, density) ==
    (area \div 100) * density + ((area % 100) * density) \div 100

\* severity_impact_analyzer: the magnitude term, only for earthquakes; the
\* magnitude is in tenths (severity_assessment_node always passes "5.0").
MagnitudeTerm(disaster_type, magnitude) ==
    IF disaster_type = "earthquake"
    THEN IF magnitude >= 60 THEN 40 ELSE IF magnitude >= 40 THEN 20 ELSE 0
    ELSE 0

PopulationTerm(pop) == IF pop > 10000 THEN 30 ELSE IF pop > 1000 THEN 15 ELSE 0

InfrastructureTerm(n) == IF n > 10 THEN 20 ELSE IF n > 0 THEN 10 ELSE 0

AreaTerm(area) == IF area > 100 * 100 THEN 10 ELSE 0

\* The score is accumulated in binary floating point, in the order magnitude,
\* population, infrastructure, area.  The three sums below come out as
\* 0.7999999999999999, one ulp under the real number 0.8.
SumIsUnderFloat(m, p, i, a) ==
    <<m, p, i, a>> \in { <<20, 30, 20, 10>>, <<40, 30, 0, 10>>, <<40, 30, 10, 0>> }

\* severity_impact_analyzer: the level from the (float) score.
LevelOfScore(score, under) ==
    IF score >= 80 /\ ~under THEN "extreme"
    ELSE IF score >= 60 THEN "critical"
    ELSE IF score >= 40 THEN "high"
    ELSE IF score >= 20 THEN "moderate"
    ELSE "low"

\* severity_impact_analyzer: escalation_required = level in high/critical/extreme
EscalationFromLevel(level) == level \in {"high", "critical", "extreme"}

\* severity_impact_analyzer, the normal return value.
severity_impact_analyzer(disaster_type, magnitude, area, density, infrastructure) ==
    LET pop   == PopulationAtRisk(area, density)
        m     == MagnitudeTerm(disaster_type, magnitude)
        p     == PopulationTerm(pop)
        i     == InfrastructureTerm(infrastructure)
        a     == AreaTerm(area)
        score == m + p + i + a
        level == LevelOfScore(score, SumIsUnderFloat(m, p, i, a))
    IN  [severity_level      |-> level,
         severity_score      |-> score,
         population_at_risk  |-> pop,
         escalation_required |-> EscalationFromLevel(level)]

\* severity_impact_analyzer, the return value of its except branch.
SeverityToolError ==
    [severity_level      |-> "unknown",
     severity_score      |-> 0,
     population_at_risk  |-> 0,
     escalation_required |-> FALSE]

\* watsonx_disaster_classifier: the template response.  ongoing and
\* detected_type are what the tool reads out of situation_description.
ClassifierTemplate(ongoing, detected_type) ==
    [empty                 |-> FALSE,
     threat_detected       |-> TRUE,
     disaster_type         |-> IF detected_type # "unknown" THEN detected_type ELSE "earthquake",
     confidence_score      |-> IF ongoing THEN 85 ELSE 75,
     severity_level        |-> IF ongoing THEN "high" ELSE "moderate",
     requires_confirmation |-> ~ongoing,
     ongoing               |-> ongoing]

\* watsonx_disaster_classifier: the return value of its except branch.
ClassifierToolError ==
    [empty                 |-> FALSE,
     threat_detected       |-> FALSE,
     disaster_type         |-> "unknown",
     confidence_score      |-> 0,
     severity_level        |-> "low",
     requires_confirmation |-> FALSE,
     ongoing               |-> FALSE]

watsonx_disaster_classifier(tool_error, ongoing, detected_type) ==
    IF tool_error THEN ClassifierToolError ELSE ClassifierTemplate(ongoing, detected_type)

\* web_search_disaster_confirmation: len(queries), the four queries built.
QueriesBuilt == 4

\* web_search_disaster_confirmation: queries[:2], the queries that are run.
QueriesRun == 2

\* Outcome of one web_search.run(query): it raises, or its text holds one of
\* the corroborating keywords ("hit"), or it does not ("miss").
SearchOutcome == {"raise", "hit", "miss"}

ConfirmedSources(outcomes) == Cardinality({k \in DOMAIN outcomes : outcomes[k] = "hit"})

\* confirmation_confidence = len(confirmed_sources) / len(queries), hundredths
ConfirmationConfidence(outcomes) == (ConfirmedSources(outcomes) * 100) \div QueriesBuilt

\* confirmed = confirmation_confidence > 0.3
ConfirmedFromConfidence(conf) == conf > 30

\* all_results: one entry, in query order, per query that did not raise
SearchResults(outcomes) == SelectSeq(outcomes, LAMBDA o : o # "raise")

\* web_search_disaster_confirmation: setup_error is a failure outside the
\* per-query try (the search wrapper cannot be built): the outer except.
web_search_disaster_confirmation(setup_error, outcomes) ==
    IF setup_error
    THEN [confirmed               |-> FALSE,
          confirmation_confidence |-> 0,
          sources_found           |-> 0,
          search_results          |-> << >>,
          error                   |-> TRUE]
    ELSE [confirmed               |-> ConfirmedFromConfidence(ConfirmationConfidence(outcomes)),
          confirmation_confidence |-> ConfirmationConfidence(outcomes),
          sources_found           |-> ConfirmedSources(outcomes),
          search_results          |-> SearchResults(outcomes),
          error                   |-> FALSE]

\* predict_disaster_risk: risk_score, capped at 1.0
RiskScore(data) ==
    Min(100,
        (IF data["usgs_earthquake"] > 0 THEN 30 ELSE 0)
      + (IF data["noaa_weather"] > 0 THEN 40 ELSE 0)
      + (IF data["fema_open"] > 0 THEN 20 ELSE 0))

RECURSIVE SumOver(_, _)
SumOver(f, S) ==
    IF S = {} THEN 0
    ELSE LET x == CHOOSE y \in S : TRUE IN f[x] + SumOver(f, S \ {x})

\* data_analysis_node: total_alerts over current_monitoring_data
TotalAlerts(data) == SumOver(data, DOMAIN data)

\* ------------------------------------------------------- planning functions

\* The longest list of teams, zones, centers or deployments a call is given.
MaxItems == 2

SeqsUpTo(S, n) == UNION {[1..k -> S] : k \in 0..n}

\* Rows of response_teams.csv as load_planning_data_node reads them.
TeamChoices ==
    {[team_id |-> "T1", availability_status |-> "available"],
     [team_id |-> "T2", availability_status |-> "available"],
     [team_id |-> "T2", availability_status |-> "deployed"]}

\* Rows of population_zones.csv; location stands for the coordinate pair.
ZoneChoices ==
    {[zone_id |-> "PZ001", population_density_per_km2 |-> 1000,
      vulnerability_score |-> "low", location |-> 0],
     [zone_id |-> "population_zone_0", population_density_per_km2 |-> 3000,
      vulnerability_score |-> "very_high", location |-> 1]}

\* Rows of evacuation_zones.csv.
CenterChoices ==
    {[zone_id |-> "EC001", location |-> 0],
     [zone_id |-> "evacuation_zone_0", location |-> 2]}

\* Entries of the "deployments" list a language model may answer with.
DeploymentChoices ==
    [team_id : {"T1", "T9"}, target_zone_id : {"PZ001", "PZ999"}]

TeamIds(teams) == {teams[i].team_id : i \in DOMAIN teams}

ZoneIds(zones) == {zones[i].zone_id : i \in DOMAIN zones}

\* A variant of validate_deployment_plan that checks the team only, which C13
\* must tell from it.
validate_deployment_plan_TeamOnly(deployments, available_teams, population_zones) ==
    SelectSeq(deployments, LAMBDA d : d.team_id \in TeamIds(available_teams))

\* WatsonXPlanningOrchestrator._validate_deployment_plan
validate_deployment_plan(deployments, available_teams, population_zones) ==
    SelectSeq(deployments,
              LAMBDA d : /\ d.team_id \in TeamIds(available_teams)
                         /\ d.target_zone_id \in ZoneIds(population_zones))

\* watsonx_team_deployment_optimizer: the weight of a vulnerability_score
VulnerabilityWeight(v) ==
    CASE v = "very_high" -> 10000
      [] v = "high" -> 5000
      [] v = "medium" -> 2000
      [] OTHER -> 0

\* watsonx_team_deployment_optimizer: the sort key of a zone
ZoneRisk(z) == z.population_density_per_km2 + VulnerabilityWeight(z.vulnerability_score)

\* sorted(..., reverse=True) is stable: z goes after the zones of s whose key
\* is at least its own
InsertZone(z, s) ==
    LET k == Cardinality({i \in DOMAIN s : ZoneRisk(s[i]) >= ZoneRisk(z)})
    IN  SubSeq(s, 1, k) \o <<z>> \o SubSeq(s, k + 1, Len(s))

RECURSIVE SortedZones(_)
\* watsonx_team_deployment_optimizer: sorted_zones
SortedZones(zones) ==
    IF zones = << >> THEN << >>
    ELSE InsertZone(zones[Len(zones)], SortedZones(SubSeq(zones, 1, Len(zones) - 1)))

\* watsonx_team_deployment_optimizer: the "deployments" of its plan
watsonx_team_deployment_optimizer(teams_data, zones_data) ==
    LET sorted_zones == SortedZones(zones_data)
    IN  [i \in 1..Min(Len(teams_data), Len(zones_data)) |->
            [team_id |-> teams_data[i].team_id,
             target_zone_id |-> sorted_zones[i].zone_id]]

\* A variant of AvailableTeams that takes every team loaded, which C37 must
\* tell from it.
AvailableTeams_AnyStatus(teams) == teams

\* create_deployment_plan_node: available_teams
AvailableTeams(teams) == SelectSeq(teams, LAMBDA t : t.availability_status = "available")

\* create_deployment_plan_node: team_deployments, from the loaded teams and
\* zones (the state's empty list is kept when no team is available)
TeamDeployments(teams, zones) ==
    IF AvailableTeams(teams) = << >> THEN << >>
    ELSE LET deployments == watsonx_team_deployment_optimizer(AvailableTeams(teams), zones)
         IN  [i \in DOMAIN deployments |->
                 [team_id |-> deployments[i].team_id,
                  target_zone_id |-> deployments[i].target_zone_id]]

\* osrm_route_planner: f"route_{i}_{j}", kept as its parts between the "_"
RouteId(i, j) == <<"route", ToString(i), ToString(j)>>

\* osrm_route_planner: the "routes" of its answer. A pair of equal
\* coordinates has distance_km = 0, 1000 / distance_km raises, and the except
\* branch answers with no routes.
osrm_route_planner(from_locations, to_locations) ==
    LET n == Len(from_locations)
        m == Len(to_locations)
    IN  IF \E i \in 1..n, j \in 1..m : from_locations[i] = to_locations[j]
        THEN << >>
        ELSE [k \in 1..(n * m) |->
                 [route_id |-> RouteId((k - 1) \div m, (k - 1) % m),
                  from_location |-> from_locations[((k - 1) \div m) + 1],
                  to_location |-> to_locations[((k - 1) % m) + 1]]]

\* create_evacuation_plan_node: the coordinates it hands to the route planner
Coordinates(places) == [i \in DOMAIN places |-> places[i].location]

\* create_evacuation_plan_node: evacuation_routes, from the loaded zones and
\* centers (route_id.split('_') gives the parts back)
EvacuationRoutes(population_zones, evacuation_zones) ==
    LET routes == IF population_zones # << >> /\ evacuation_zones # << >>
                  THEN osrm_route_planner(Coordinates(population_zones),
                                          Coordinates(evacuation_zones))
                  ELSE << >>
    IN  [k \in DOMAIN routes |->
            [route_id |-> routes[k].route_id,
             from_zone_id |-> "population_zone_" \o routes[k].route_id[2],
             to_zone_id |-> "evacuation_zone_" \o routes[k].route_id[3]]]

\* Entries of the monitoring_data list handed to the fallback classifier.
MonitoringDataChoices ==
    [source : {"usgs_earthquake", "noaa_weather", "fema_open"}, alerts_count : {0, 1, 3}]

RECURSIVE SumAlerts(_)
\* _create_fallback_classification: total_alerts
SumAlerts(monitoring_data) ==
    IF monitoring_data = << >> THEN 0
    ELSE monitoring_data[1].alerts_count + SumAlerts(Tail(monitoring_data))

\* A variant of FallbackConfidence without the cap, which C20 must tell from
\* it.
FallbackConfidence_Uncapped(total_alerts) == total_alerts * 20

\* _create_fallback_classification: confidence = min(total_alerts * 0.2, 0.8),
\* in hundredths (3 * 0.2 is 0.6000000000000001 in binary floating point, one
\* ulp over 0.6; no comparison made with it depends on that ulp)
FallbackConfidence(total_alerts) == Min(total_alerts * 20, 80)

RECURSIVE FallbackDisasterType(_)
\* _create_fallback_classification: disaster_type, from the first entry with
\* alerts whose source is USGS or NOAA
FallbackDisasterType(monitoring_data) ==
    IF monitoring_data = << >> THEN "unknown"
    ELSE IF monitoring_data[1].alerts_count > 0 /\ monitoring_data[1].source = "usgs_earthquake"
         THEN "earthquake"
    ELSE IF monitoring_data[1].alerts_count > 0 /\ monitoring_data[1].source = "noaa_weather"
         THEN "severe_weather"
    ELSE FallbackDisasterType(Tail(monitoring_data))

\* WatsonXDisasterClassifier._create_fallback_classification
create_fallback_classification(monitoring_data) ==
    LET total_alerts == SumAlerts(monitoring_data)
    IN  [threat_detected       |-> total_alerts > 0,
         disaster_type         |-> FallbackDisasterType(monitoring_data),
         confidence_score      |-> FallbackConfidence(total_alerts),
         severity_level        |-> IF total_alerts > 2 THEN "moderate" ELSE "low",
         requires_confirmation |-> total_alerts > 0]

\* --------------------------------------------- WatsonXDisasterClassifier

DisasterType ==
    {"earthquake", "wildfire", "flood", "hurricane", "tornado", "severe_weather",
     "volcanic", "landslide", "unknown"}

\* A confidence value: a number in hundredths, or the float nan.
Number(v) == [kind |-> "number", value |-> v]

NaN == [kind |-> "nan", value |-> 0]

\* What json.loads gives for "confidence_score" in an answer of the model:
\* numbers in and out of range, NaN (json.loads accepts the literal), a
\* string float() cannot parse, or no such key.
RawConfidence ==
    {Number(-50), Number(50), Number(150), NaN,
     [kind |-> "text", value |-> 0], [kind |-> "missing", value |-> 0]}

\* The answers of the language model: text that is no JSON, or a JSON object
\* with these fields ("missing": the key is absent).
RawResponses ==
    [json : {FALSE}, disaster_type : {"unknown"}, severity_level : {"low"},
     confidence_score : {NaN}]
    \cup
    [json : {TRUE}, disaster_type : {"flood", "meteor_strike", "missing"},
     severity_level : {"high", "catastrophic", "missing"},
     confidence_score : RawConfidence]

\* _validate_classification: float(...) raises on text it cannot parse
FloatRaises(raw) == raw.kind = "text"

\* _validate_classification: min(max(float(x), 0.0), 1.0). Every comparison
\* with nan is false, so max(nan, 0.0) and then min(nan, 1.0) give nan back.
ClampConfidence(raw) ==
    IF raw.kind = "missing" THEN Number(0)
    ELSE IF raw.kind = "nan" THEN NaN
    ELSE Number(Min(IF raw.value > 0 THEN raw.value ELSE 0, 100))

\* WatsonXDisasterClassifier._validate_classification
validate_classification(response) ==
    LET dt == IF response.disaster_type = "missing" THEN "unknown" ELSE response.disaster_type
        sl == IF response.severity_level = "missing" THEN "low" ELSE response.severity_level
    IN  [disaster_type    |-> IF dt \notin DisasterType THEN "unknown" ELSE dt,
         severity_level   |-> IF sl \notin SeverityLevel THEN "low" ELSE sl,
         confidence_score |-> ClampConfidence(response.confidence_score)]

\* WatsonXDisasterClassifier.classify_disaster: the classification returned
\* when the model call raised (llm_raises) or answered response
classify_disaster(llm_raises, response, monitoring_data) ==
    IF llm_raises \/ ~response.json \/ FloatRaises(response.confidence_score)
    THEN LET fallback == create_fallback_classification(monitoring_data)
         IN  [disaster_type    |-> fallback.disaster_type,
              severity_level   |-> fallback.severity_level,
              confidence_score |-> Number(fallback.confidence_score)]
    ELSE validate_classification(response)

\* ------------------------------------------ evacuation_capacity_optimizer

\* Entries of population_zones_json; the ids of a list are all different.
CapacityZoneChoices ==
    [zone_id : {"PZ001", "PZ002", "PZ003"}, population : {0, 40, 70},
     vulnerability_score : {"low", "very_high"}]

\* Entries of evacuation_centers_json; the ids of a list are all different.
CapacityCenterChoices == [zone_id : {"EC001", "EC002"}, capacity : {0, 50, 100}]

DistinctIds(rows) == \A i, j \in DOMAIN rows : rows[i].zone_id = rows[j].zone_id => i = j

\* evacuation_capacity_optimizer: the sort key of a zone
VulnerabilityKey(v) ==
    CASE v = "very_high" -> 4
      [] v = "high" -> 3
      [] v = "medium" -> 2
      [] OTHER -> 1

\* sorted(..., reverse=True) is stable: z goes after the zones of s whose key
\* is at least its own
InsertByVulnerability(z, s) ==
    LET k == Cardinality({i \in DOMAIN s : VulnerabilityKey(s[i].vulnerability_score)
                                             >= VulnerabilityKey(z.vulnerability_score)})
    IN  SubSeq(s, 1, k) \o <<z>> \o SubSeq(s, k + 1, Len(s))

RECURSIVE SortedByVulnerability(_)
\* evacuation_capacity_optimizer: sorted_zones
SortedByVulnerability(zones) ==
    IF zones = << >> THEN << >>
    ELSE InsertByVulnerability(zones[Len(zones)],
                               SortedByVulnerability(SubSeq(zones, 1, Len(zones) - 1)))

\* evacuation_capacity_optimizer: center_utilization before any assignment;
\* a later center of the same id overwrites an earlier one
InitialUtilization(centers) ==
    [id \in {centers[i].zone_id : i \in DOMAIN centers} |->
        LET last == CHOOSE i \in DOMAIN centers :
                       /\ centers[i].zone_id = id
                       /\ \A j \in DOMAIN centers : centers[j].zone_id = id => j <= i
        IN  [total_capacity |-> centers[last].capacity, assigned_population |-> 0]]

AvailableCapacity(utilization, center) ==
    utilization[center.zone_id].total_capacity
        - utilization[center.zone_id].assigned_population

\* A variant of BestCenter that does not ask whether the zone fits, which C36
\* must tell from it.
BestCenter_AnyCenter(centers, utilization, zone_population) ==
    LET Space(i) == IF AvailableCapacity(utilization, centers[i]) > 1
                    THEN AvailableCapacity(utilization, centers[i]) ELSE 1
    IN  IF centers = << >> THEN 0
        ELSE CHOOSE i \in DOMAIN centers :
                 \A j \in DOMAIN centers : Space(j) < Space(i) \/ (Space(j) = Space(i) /\ i <= j)

\* evacuation_capacity_optimizer: the index of best_center, 0 for None. The
\* score 1.0 / max(available_capacity, 1) is compared with <, so the first
\* of the centers with the most room wins.
BestCenter(centers, utilization, zone_population) ==
    LET eligible == {i \in DOMAIN centers :
                        AvailableCapacity(utilization, centers[i]) >= zone_population}
        Space(i) == IF AvailableCapacity(utilization, centers[i]) > 1
                    THEN AvailableCapacity(utilization, centers[i]) ELSE 1
    IN  IF eligible = {} THEN 0
        ELSE CHOOSE i \in eligible :
                 \A j \in eligible : Space(j) < Space(i) \/ (Space(j) = Space(i) /\ i <= j)

\* evacuation_capacity_optimizer: the answer of its except branch
CapacityOptimizerError ==
    [error |-> TRUE, evacuation_assignments |-> << >>, center_utilization |-> << >>]

RECURSIVE AssignZones(_, _, _, _, _)
\* evacuation_capacity_optimizer: the loop over sorted_zones from its k-th
\* zone on, then the summary. utilization_percentage divides by the
\* center's total_capacity and average_utilization by the number of centers.
AssignZones(sorted_zones, centers, k, assignments, utilization) ==
    IF k > Len(sorted_zones)
    THEN IF DOMAIN utilization = {} THEN CapacityOptimizerError
         ELSE [error |-> FALSE, evacuation_assignments |-> assignments,
               center_utilization |-> utilization]
    ELSE LET zone == sorted_zones[k]
             best == BestCenter(centers, utilization, zone.population)
         IN  IF best = 0
             THEN AssignZones(sorted_zones, centers, k + 1, assignments, utilization)
             ELSE IF utilization[centers[best].zone_id].total_capacity = 0
             THEN CapacityOptimizerError
             ELSE AssignZones(
                      sorted_zones, centers, k + 1,
                      Append(assignments,
                             [from_zone_id |-> zone.zone_id,
                              to_zone_id |-> centers[best].zone_id,
                              population_count |-> zone.population]),
                      [utilization EXCEPT ![centers[best].zone_id].assigned_population =
                                              @ + zone.population])

\* evacuation_capacity_optimizer
evacuation_capacity_optimizer(population_zones, evacuation_centers) ==
    AssignZones(SortedByVulnerability(population_zones), evacuation_centers, 1, << >>,
                InitialUtilization(evacuation_centers))

\* ------------------------------------------------------- poll_all_sources

\* poll_all_sources: sources, in the order the tasks are appended
PollSources ==
    <<"usgs_earthquake", "noaa_weather", "fema_open", "nasa_worldview", "osm_overpass">>

\* What the call of one client can do: return a response with success, return
\* a response without (the client caught its own error), or raise.
CallOutcome == {"succeeded", "failed", "raised"}

\* The orders in which the tasks can complete
CompletionOrders ==
    {order \in [1..Len(PollSources) -> 1..Len(PollSources)] :
        \A i, j \in 1..Len(PollSources) : order[i] = order[j] => i = j}

\* What task i hands to gather: the APIResponse of its client or the
\* exception raised
TaskResult(i, outcome) ==
    [is_exception |-> outcome = "raised",
     source |-> PollSources[i],
     success |-> outcome = "succeeded",
     error_message |-> IF outcome = "succeeded" THEN "None" ELSE PollSources[i] \o " error"]

\* A variant of gather that lists the results in the order of completion,
\* which C23 must tell from it.
RECURSIVE gather_CompletionOrder(_, _, _, _)
gather_CompletionOrder(results, outcomes, order, k) ==
    IF k > Len(order)
    THEN results
    ELSE gather_CompletionOrder(
             [results EXCEPT ![k] = TaskResult(order[k], outcomes[PollSources[order[k]]])],
             outcomes, order, k + 1)

\* asyncio.gather(*tasks, return_exceptions=True): the k-th task to complete
\* puts its result at its own position
RECURSIVE gather(_, _, _, _)
gather(results, outcomes, order, k) ==
    IF k > Len(order)
    THEN results
    ELSE gather([results EXCEPT ![order[k]] =
                     TaskResult(order[k], outcomes[PollSources[order[k]]])],
                outcomes, order, k + 1)

\* poll_all_sources: response_map
poll_all_sources(outcomes, order) ==
    LET results == gather([i \in 1..Len(PollSources) |-> TaskResult(i, "raised")], outcomes, order, 1)
        IndexOf(source) == CHOOSE i \in 1..Len(PollSources) : PollSources[i] = source
    IN  [source \in {PollSources[i] : i \in 1..Len(PollSources)} |->
            LET result == results[IndexOf(source)]
            IN  IF result.is_exception
                THEN [source |-> source, success |-> FALSE,
                      error_message |-> result.error_message]
                ELSE [source |-> result.source, success |-> result.success,
                      error_message |-> result.error_message]]

\* ------------------------------------------------ bookkeeping of the nodes

\* api_monitoring_node: monitoring_history keeps its last 100 entries
MonitoringHistoryCap == 100

\* A list of n entries, each standing for the entry appended n-th.
Serial(n) == [i \in 1..n |-> i]

\* A variant of KeepLast that keeps the oldest n entries, which C24 must
\* tell from it.
KeepLast_Oldest(seq, n) == IF Len(seq) > n THEN SubSeq(seq, 1, n) ELSE seq

\* seq[-n:] when seq is longer than n
KeepLast(seq, n) ==
    IF Len(seq) > n THEN SubSeq(seq, Len(seq) - n + 1, Len(seq)) ELSE seq

\* poll_all_sources then api_monitoring_node: the dict of poll times, a
\* function on the sources polled so far
UpdatedPollTimes(last_api_poll_times, success, now) ==
    [s \in (DOMAIN last_api_poll_times) \cup (DOMAIN success) |->
        IF s \in DOMAIN success THEN now ELSE last_api_poll_times[s]]

\* A variant of UpdatedErrorCounts that never resets a count, which C22 must
\* tell from it.
UpdatedErrorCounts_NoReset(api_error_counts, success) ==
    [s \in (DOMAIN api_error_counts) \cup (DOMAIN success) |->
        IF s \in DOMAIN success
        THEN IF ~success[s]
             THEN (IF s \in DOMAIN api_error_counts THEN api_error_counts[s] ELSE 0) + 1
             ELSE (IF s \in DOMAIN api_error_counts THEN api_error_counts[s] ELSE 0)
        ELSE api_error_counts[s]]

\* api_monitoring_node: updated_error_counts, for the responses of one poll
\* (success[s]: whether the response of source s has success = True)
UpdatedErrorCounts(api_error_counts, success) ==
    [s \in (DOMAIN api_error_counts) \cup (DOMAIN success) |->
        IF s \in DOMAIN success
        THEN IF ~success[s]
             THEN (IF s \in DOMAIN api_error_counts THEN api_error_counts[s] ELSE 0) + 1
             ELSE 0
        ELSE api_error_counts[s]]

\* api_monitoring_node: updated_history; convert_to_monitoring_data gives one
\* entry per source of the response map
UpdatedMonitoringHistory(monitoring_history, success) ==
    LET n == Len(monitoring_history)
        monitoring_data == [i \in 1..Cardinality(DOMAIN success) |->
                               (IF n = 0 THEN 0 ELSE monitoring_history[n]) + i]
    IN  KeepLast(monitoring_history \o monitoring_data, MonitoringHistoryCap)

\* A variant of api_monitoring_bookkeeping that counts a raised step against
\* every source, which C35 must tell from it.
api_monitoring_bookkeeping_CountsRaise(state, raised, success, now) ==
    IF raised
    THEN [state EXCEPT !.processing_errors = Append(@, "API monitoring error"),
                       !.retry_count = @ + 1,
                       !.api_error_counts = UpdatedErrorCounts(@, success)]
    ELSE [state EXCEPT !.last_api_poll_times = UpdatedPollTimes(@, success, now),
                       !.api_error_counts = UpdatedErrorCounts(@, success),
                       !.monitoring_history = UpdatedMonitoringHistory(@, success)]

\* api_monitoring_node on a state with a region, as far as its bookkeeping
\* goes: the poll returned the responses `success`, or the step raised
api_monitoring_bookkeeping(state, raised, success, now) ==
    IF raised
    THEN [state EXCEPT !.processing_errors = Append(@, "API monitoring error"),
                       !.retry_count = @ + 1]
    ELSE [state EXCEPT !.last_api_poll_times = UpdatedPollTimes(@, success, now),
                       !.api_error_counts = UpdatedErrorCounts(@, success),
                       !.monitoring_history = UpdatedMonitoringHistory(@, success)]

\* A variant of UpdatedActiveEvents that loses the event, which C26 must tell
\* from it.
UpdatedActiveEvents_Lost(events, event) == events

\* create_event_record_node: updated_active_events
UpdatedActiveEvents(events, event) == Append(events, event)

\* create_event_record_node: updated_event_history
UpdatedEventHistory(history, event) == KeepLast(Append(history, event), EventHistoryCap)

\* create_event_record_node on a state with a classification, as far as the
\* two lists of events go
event_record_bookkeeping(state, event) ==
    [state EXCEPT !.active_events = UpdatedActiveEvents(@, event),
                  !.event_history = UpdatedEventHistory(@, event)]

\* A variant of trigger_planning_workflow that does not look for the current
\* event, which C34 must tell from it.
trigger_planning_workflow_NoLookup(state) ==
    [state EXCEPT !.planning_workflow_triggered = TRUE,
                  !.planning_workflow_id = <<"planning", state.current_event_id>>,
                  !.alert_messages = Append(@, state.current_event_id),
                  !.notification_sent = TRUE,
                  !.next_action = "continue_monitoring"]

\* trigger_planning_workflow_node, from the try to the return: the state it
\* returns for the state it is given
trigger_planning_workflow(state) ==
    LET found == /\ state.current_event_id # "None"
                 /\ \E i \in DOMAIN state.active_events :
                       state.active_events[i].id = state.current_event_id
    IN  IF ~found
        THEN [state EXCEPT !.next_action = "wait_interval"]
        ELSE [state EXCEPT !.planning_workflow_triggered = TRUE,
                           !.planning_workflow_id = <<"planning", state.current_event_id>>,
                           !.alert_messages = Append(@, state.current_event_id),
                           !.notification_sent = TRUE,
                           !.next_action = "continue_monitoring"]

\* -------------------------------------------------------------------- state

VARIABLES
    \* DisasterDetectionState, the fields the two graphs route on
    monitoring_regions,
    current_monitoring_data,
    classification_results,
    search_results,
    confirmation_status,
    severity_score,
    escalation_required,
    active_events,
    event_history,
    current_event_id,
    planning_workflow_triggered,
    planning_workflow_id,
    alert_messages,
    notification_sent,
    workflow_phase,
    next_action,
    processing_errors,
    retry_count,
    \* run_monitoring_cycle: the graph run
    pc,             \* the node the graph has routed to
    steps,          \* supersteps executed in this run
    run_status,     \* "running", "final" (the loop broke) or "error" (it raised)
    \* IntegratedDisasterManagement.run_complete_disaster_management
    manager,        \* "detection", "planning" or "returned"
    management_phase,
    \* run_planning_cycle
    plan_pc,
    \* environment
    clock,          \* datetime.now() in whole seconds, as last read
    faults,         \* injected step exceptions so far
    poll_failures,  \* polls that raised so far
    \* DetectionReActAdapter.run: its arguments and locals
    adapter_pc,     \* the statement of run() reached: classify, confirm, ...
    radius_km,
    situation_description,
    classification,
    confirmation,
    severity,
    \* a tool or planner function called on its own
    fn,             \* the function called, None when none is
    fn_args,        \* its arguments
    fn_result,      \* what it returned
    fn_done,        \* whether it has returned
    \* history
    last_node,      \* the node executed last in the detection run
    retries,        \* re-entries of api_monitoring from api_monitoring
    plan_trace      \* planning nodes executed, in order

session_vars ==
    <<monitoring_regions, current_monitoring_data, classification_results,
      search_results, confirmation_status, severity_score, escalation_required,
      active_events,
      event_history, current_event_id, planning_workflow_triggered,
      planning_workflow_id, alert_messages, notification_sent,
      workflow_phase, next_action, processing_errors, retry_count>>

\* what trigger_planning_workflow_node alone writes in the detection graph
trigger_vars == <<planning_workflow_id, alert_messages, notification_sent>>

run_vars == <<pc, steps, run_status>>

manager_vars == <<manager, management_phase, plan_pc>>

env_vars == <<clock, faults, poll_failures>>

hist_vars == <<last_node, retries, plan_trace>>

adapter_vars ==
    <<adapter_pc, radius_km, situation_description, classification, confirmation, severity>>

fn_vars == <<fn, fn_args, fn_result, fn_done>>

vars ==
    <<session_vars, run_vars, manager_vars, env_vars, hist_vars, adapter_vars, fn_vars>>

None == "None"

\* fn_args and fn_result while no function is called
NoArgs == [empty |-> TRUE]

NoResult == [empty |-> TRUE]

\* The words of a situation_description the classifier tool looks for; a
\* description is the set of those it holds, the empty string holds none.
SituationKeywords == {"ongoing", "flood"}

\* The radius_km arguments DetectionReActAdapter.run is called with.
RadiusChoices == {5, 100}

\* create_initial_state, then run_monitoring_cycle entering the graph at its
\* entry point api_monitoring.
InitSession ==
    /\ current_monitoring_data = << >>
    /\ classification_results = NoClassification
    /\ search_results = << >>
    /\ confirmation_status = "monitoring"
    /\ severity_score = 0
    /\ escalation_required = FALSE
    /\ active_events = << >>
    /\ event_history = << >>
    /\ current_event_id = None
    /\ planning_workflow_triggered = FALSE
    /\ planning_workflow_id = None
    /\ alert_messages = << >>
    /\ notification_sent = FALSE
    /\ workflow_phase = "monitoring"
    /\ next_action = "poll_apis"
    /\ processing_errors = << >>
    /\ retry_count = 0
    /\ steps = 0
    /\ run_status = "running"
    /\ management_phase = None
    /\ plan_pc = None
    /\ clock = 0
    /\ faults = 0
    /\ poll_failures = 0
    /\ last_node = None
    /\ retries = 0
    /\ plan_trace = << >>
    /\ classification = NoClassification
    /\ confirmation = NoConfirmation
    /\ severity = NoSeverity

\* IntegratedDisasterManagement.run_complete_disaster_management is called on
\* a fresh session.
InitManagement ==
    /\ monitoring_regions \in MonitoringRegionChoices
    /\ pc = "api_monitoring"
    /\ manager = "detection"
    /\ adapter_pc = None
    /\ radius_km = 0
    /\ situation_description = {}
    /\ fn = None
    /\ fn_args = NoArgs
    /\ fn_result = NoResult
    /\ fn_done = FALSE

\* DisasterDetectionWorkflow.run_continuous_monitoring is called with its
\* default max_cycles = None; its first run_monitoring_cycle enters the graph.
InitContinuous ==
    /\ monitoring_regions \in MonitoringRegionChoices
    /\ pc = "api_monitoring"
    /\ manager = "continuous"
    /\ adapter_pc = None
    /\ radius_km = 0
    /\ situation_description = {}
    /\ fn = None
    /\ fn_args = NoArgs
    /\ fn_result = NoResult
    /\ fn_done = FALSE

\* DetectionReActAdapter.run is called (by the API server, the dashboard or
\* the integrated orchestrator); the graph is not run.
InitAdapter ==
    /\ monitoring_regions = << >>
    /\ pc = None
    /\ manager = None
    /\ adapter_pc = "classify"
    /\ radius_km \in RadiusChoices
    /\ situation_description \in SUBSET SituationKeywords
    /\ fn = None
    /\ fn_args = NoArgs
    /\ fn_result = NoResult
    /\ fn_done = FALSE

\* A tool of orchestrator/tools.py, a planner function or the computation of
\* one planning node is called on its own, with arguments of the caller's
\* choosing; neither graph is run.
InitCall ==
    /\ monitoring_regions = << >>
    /\ pc = None
    /\ manager = None
    /\ adapter_pc = None
    /\ radius_km = 0
    /\ situation_description = {}
    /\ fn_result = NoResult
    /\ fn_done = FALSE
    /\ \/ /\ fn = "create_deployment_plan_node"
          /\ fn_args \in [available_response_teams : SeqsUpTo(TeamChoices, MaxItems),
                          population_zones : SeqsUpTo(ZoneChoices, MaxItems)]
       \/ /\ fn = "validate_deployment_plan"
          /\ fn_args \in [deployments : SeqsUpTo(DeploymentChoices, MaxItems),
                          available_teams : SeqsUpTo(TeamChoices, 1),
                          population_zones : SeqsUpTo(ZoneChoices, 1)]
       \/ /\ fn = "create_evacuation_plan_node"
          /\ fn_args \in [population_zones : SeqsUpTo(ZoneChoices, MaxItems),
                          evacuation_zones : SeqsUpTo(CenterChoices, MaxItems)]
       \/ /\ fn = "severity_impact_analyzer"
          /\ fn_args \in [disaster_type : {"earthquake", "flood"},
                          magnitude_or_intensity : {30, 50, 65},
                          affected_area_km2 : {5000, 15000},
                          population_density : {0, 30, 80, 100},
                          critical_infrastructure_count : {0, 5, 12}]
       \/ /\ fn = "web_search_disaster_confirmation"
          /\ fn_args \in [setup_error : BOOLEAN,
                          outcomes : [1..QueriesRun -> SearchOutcome]]
       \/ /\ fn = "api_monitoring_node"
          /\ fn_args \in
                [state : [last_api_poll_times : {<< >>, [s \in APISource |-> 0]},
                          api_error_counts : {[s \in APISource |-> 0], [s \in APISource |-> 2]},
                          monitoring_history : {Serial(0), Serial(96), Serial(100)},
                          processing_errors :
                              {<< >>, [i \in 1..MonitoringHistoryCap |-> "API monitoring error"]},
                          retry_count : {0}],
                 raised : {FALSE}, success : [APISource -> BOOLEAN], now : {1}]
                \cup
                [state : [last_api_poll_times : {<< >>, [s \in APISource |-> 0]},
                          api_error_counts : {[s \in APISource |-> 0], [s \in APISource |-> 2]},
                          monitoring_history : {Serial(0), Serial(96)},
                          processing_errors :
                              {<< >>, [i \in 1..MonitoringHistoryCap |-> "API monitoring error"]},
                          retry_count : {0}],
                 raised : {TRUE}, success : {[s \in APISource |-> FALSE]}, now : {1}]
       \/ /\ fn = "create_event_record_node"
          /\ fn_args \in
                [state : [active_events : {Serial(0), Serial(49), Serial(50), Serial(60)},
                          event_history : {Serial(0), Serial(49), Serial(50)}],
                 event : {1000}]
       \/ /\ fn = "poll_all_sources"
          /\ fn_args \in [outcomes : [APISource -> CallOutcome], order : CompletionOrders]
       \/ /\ fn = "trigger_planning_workflow_node"
          /\ fn_args \in
                [state : [current_event_id : {"None", "event_1", "event_2"},
                          active_events : SeqsUpTo([id : {"event_1", "event_3"}], 2),
                          planning_workflow_triggered : BOOLEAN,
                          planning_workflow_id : {<<"planning", "None">>},
                          alert_messages : {<< >>},
                          notification_sent : {FALSE},
                          next_action : {"trigger_planning_workflow"}]]
       \/ /\ fn = "evacuation_capacity_optimizer"
          /\ fn_args \in [population_zones : SeqsUpTo(CapacityZoneChoices, MaxItems),
                          evacuation_centers : SeqsUpTo(CapacityCenterChoices, MaxItems)]
          /\ DistinctIds(fn_args.population_zones)
          /\ DistinctIds(fn_args.evacuation_centers)
       \/ /\ fn = "classify_disaster"
          /\ fn_args \in [llm_raises : BOOLEAN, response : RawResponses,
                          monitoring_data : SeqsUpTo(MonitoringDataChoices, 1)]
       \/ /\ fn = "create_fallback_classification"
          /\ fn_args \in [monitoring_data : SeqsUpTo(MonitoringDataChoices, MaxItems)]

Init == InitSession /\ (InitManagement \/ InitContinuous \/ InitAdapter \/ InitCall)

\* ------------------------------------------------- detection graph: routing

\* _route_from_api_monitoring with the edge map of _build_workflow
\* ("error_handling" is mapped to the node wait_interval).
route_from_api_monitoring(na) ==
    IF na = "error_handling" THEN "wait_interval"
    ELSE IF na = "api_monitoring" THEN "api_monitoring"
    ELSE "data_analysis"

route_from_data_analysis(na) ==
    IF na = "watsonx_classification" THEN "watsonx_classification" ELSE "wait_interval"

route_from_watsonx_classification(na) ==
    IF na = "web_search_confirmation" THEN "web_search_confirmation"
    ELSE IF na = "severity_assessment" THEN "severity_assessment"
    ELSE "wait_interval"

route_from_confirmation(na) ==
    IF na = "log_false_positive" THEN "log_false_positive" ELSE "severity_assessment"

route_from_severity_assessment(na) ==
    IF na = "safe_zone_analysis" THEN "safe_zone_analysis" ELSE "create_event_record"

route_from_event_creation(na) ==
    IF na = "trigger_planning_workflow" THEN "trigger_planning_workflow" ELSE "wait_interval"

\* The edges of _build_workflow: the node that follows `node` when the state
\* it returned has next_action = na.
Route(node, na) ==
    CASE node = "api_monitoring"            -> route_from_api_monitoring(na)
      [] node = "data_analysis"             -> route_from_data_analysis(na)
      [] node = "watsonx_classification"    -> route_from_watsonx_classification(na)
      [] node = "web_search_confirmation"   -> route_from_confirmation(na)
      [] node = "severity_assessment"       -> route_from_severity_assessment(na)
      [] node = "safe_zone_analysis"        -> "create_event_record"
      [] node = "create_event_record"       -> route_from_event_creation(na)
      [] node = "trigger_planning_workflow" -> "wait_interval"
      [] node = "wait_interval"             -> "api_monitoring"
      [] node = "log_false_positive"        -> "wait_interval"

\* run_monitoring_cycle: the stream loop stops at the first state whose
\* next_action is "wait_interval".
CycleBreaks(na) == na = "wait_interval"

\* A node may run: a run_monitoring_cycle is under way (called by the manager
\* in its detection phase or by run_continuous_monitoring), the stream loop has
\* not stopped, the graph has routed to the node and the recursion limit of
\* the run is not used up.
CanRun(node) ==
    /\ manager \in {"detection", "continuous"}
    /\ run_status = "running"
    /\ pc = node
    /\ steps < recursion_limit

\* The graph run after `node` returned a state with next_action': one more
\* superstep, the routing, and the break test of the stream loop.
Advance(node) ==
    /\ last_node' = node
    /\ steps' = steps + 1
    /\ pc' = Route(node, next_action')
    /\ run_status' = IF CycleBreaks(next_action') THEN "final" ELSE "running"
    /\ UNCHANGED <<manager_vars, plan_trace, monitoring_regions, workflow_phase,
                   adapter_vars, fn_vars>>

\* A step's except branch: the message is appended to processing_errors.
Fail(msg) == processing_errors' = Append(processing_errors, msg)

CanFault == faults < MaxFaults

\* --------------------------------------------------- detection graph: nodes

\* A variant of RetryNextAction with the comparison off by one (one retry
\* too many), which C2 must tell from it.
RetryNextAction_OffByOne(rc) ==
    IF rc > max_retries THEN "error_handling" ELSE "api_monitoring"

\* A variant of RetryNextAction that retries whatever the count, which C30
\* must tell from it.
RetryNextAction_Unbounded(rc) == "api_monitoring"

\* api_monitoring_node, except branch: next_action from the retry_count the
\* step started with.
RetryNextAction(rc) == IF rc >= max_retries THEN "error_handling" ELSE "api_monitoring"

\* What a poll that returned can report, as alerts_count per source: no
\* alert anywhere, or alerts of the three sources predict_disaster_risk
\* scores (risk score 0.9).
PollOutcomes ==
    { [s \in APISource |-> 0],
      [s \in APISource |-> IF s \in {"usgs_earthquake", "noaa_weather", "fema_open"}
                           THEN 1 ELSE 0] }

\* api_monitoring_node
api_monitoring_node ==
    /\ CanRun("api_monitoring")
    /\ \/ \* no region configured: early return, no retry
          /\ monitoring_regions = << >>
          /\ Fail("No monitoring regions configured")
          /\ next_action' = "error_handling"
          /\ UNCHANGED <<current_monitoring_data, retry_count, retries, poll_failures>>
       \/ \* the poll returned: one MonitoringData per source
          /\ monitoring_regions # << >>
          /\ \E data \in PollOutcomes : current_monitoring_data' = data
          /\ next_action' = "data_analysis"
          /\ UNCHANGED <<processing_errors, retry_count, retries, poll_failures>>
       \/ \* the step raised: except branch
          /\ monitoring_regions # << >>
          /\ poll_failures < MaxPollFailures
          /\ poll_failures' = poll_failures + 1
          /\ Fail("API monitoring error")
          /\ retry_count' = retry_count + 1
          /\ next_action' = RetryNextAction(retry_count)
          /\ retries' = IF next_action' = "api_monitoring" THEN retries + 1 ELSE retries
          /\ UNCHANGED current_monitoring_data
    /\ UNCHANGED <<classification_results, search_results,
                   confirmation_status, severity_score,
                   escalation_required, active_events, event_history,
                   current_event_id, planning_workflow_triggered, trigger_vars, clock,
                   faults>>
    /\ Advance("api_monitoring")

\* data_analysis_node: the condition for going on to classification
ThreatSuspected(data) == TotalAlerts(data) > 0 \/ RiskScore(data) > confidence_threshold

\* data_analysis_node: next_action; with no monitoring data at all the node
\* returns early.
AnalysisNextAction(data) ==
    IF data = << >> THEN "wait_interval"
    ELSE IF ThreatSuspected(data) THEN "watsonx_classification"
    ELSE "wait_interval"

\* data_analysis_node
data_analysis_node ==
    /\ CanRun("data_analysis")
    /\ \/ /\ next_action' = AnalysisNextAction(current_monitoring_data)
          /\ UNCHANGED <<processing_errors, faults>>
       \/ /\ CanFault
          /\ faults' = faults + 1
          /\ Fail("Data analysis error")
          /\ next_action' = "wait_interval"
    /\ UNCHANGED <<current_monitoring_data, classification_results, search_results,
                   confirmation_status,
                   severity_score, escalation_required, active_events, event_history,
                   current_event_id, planning_workflow_triggered, trigger_vars, retry_count,
                   clock, poll_failures, retries>>
    /\ Advance("data_analysis")

\* A variant of ClassificationNextAction that looks at requires_confirmation
\* before threat_detected, which C3 must tell from it.
ClassificationNextAction_ConfirmFirst(c) ==
    IF c.requires_confirmation /\ ~c.ongoing THEN "web_search_confirmation"
    ELSE IF c.threat_detected THEN "severity_assessment"
    ELSE "wait_interval"

\* watsonx_classification_node: next_action from the classification
ClassificationNextAction(c) ==
    IF c.threat_detected
    THEN IF c.requires_confirmation /\ ~c.ongoing
         THEN "web_search_confirmation"
         ELSE "severity_assessment"
    ELSE "wait_interval"

\* watsonx_classification_node.  The node calls the tool without a
\* situation_description, so the tool sees neither "ongoing" nor a type.
watsonx_classification_node ==
    /\ CanRun("watsonx_classification")
    /\ \/ /\ \E tool_error \in BOOLEAN :
                classification_results' =
                    watsonx_disaster_classifier(tool_error, FALSE, "unknown")
          /\ next_action' = ClassificationNextAction(classification_results')
          /\ UNCHANGED <<processing_errors, faults>>
       \/ /\ CanFault
          /\ faults' = faults + 1
          /\ Fail("WatsonX classification error")
          /\ next_action' = "wait_interval"
          /\ UNCHANGED classification_results
    /\ UNCHANGED <<current_monitoring_data, search_results, confirmation_status,
                   severity_score, escalation_required, active_events, event_history,
                   current_event_id, planning_workflow_triggered, trigger_vars, retry_count,
                   clock, poll_failures, retries>>
    /\ Advance("watsonx_classification")

\* A variant of ConfirmationNextAction that goes on to severity assessment
\* whatever the answer, which C5 must tell from it.
ConfirmationNextAction_Proceed(confirmed) == "severity_assessment"

\* web_search_confirmation_node: next_action from the tool's answer
ConfirmationNextAction(confirmed) ==
    IF confirmed THEN "severity_assessment" ELSE "log_false_positive"

\* web_search_confirmation_node: confirmation_status from the tool's answer
ConfirmationStatus(confirmed) == IF confirmed THEN "confirmed" ELSE "false_positive"

\* web_search_confirmation_node
web_search_confirmation_node ==
    /\ CanRun("web_search_confirmation")
    /\ \/ /\ IF classification_results = NoClassification
             THEN /\ next_action' = "wait_interval"
                  /\ UNCHANGED <<search_results, confirmation_status>>
             ELSE \E setup_error \in BOOLEAN, outcomes \in [1..QueriesRun -> SearchOutcome] :
                    LET result == web_search_disaster_confirmation(setup_error, outcomes)
                    IN  /\ search_results' = result.search_results
                        /\ confirmation_status' = ConfirmationStatus(result.confirmed)
                        /\ next_action' = ConfirmationNextAction(result.confirmed)
          /\ UNCHANGED <<processing_errors, faults>>
       \/ \* the node itself raised: proceed without confirmation
          /\ CanFault
          /\ faults' = faults + 1
          /\ Fail("Web search confirmation error")
          /\ next_action' = "severity_assessment"
          /\ UNCHANGED <<search_results, confirmation_status>>
    /\ UNCHANGED <<current_monitoring_data, classification_results, severity_score,
                   escalation_required, active_events, event_history,
                   current_event_id, planning_workflow_triggered, trigger_vars, retry_count,
                   clock, poll_failures, retries>>
    /\ Advance("web_search_confirmation")

\* severity_assessment_node: critical_infrastructure_count.  The lookup
\* current_monitoring_data.get("osm_overpass") uses the string, the map is
\* keyed by the APISource member, so it finds nothing and the default is used.
InfrastructureCount(data) == DefaultInfrastructure

\* severity_assessment_node: next_action from escalation_required
SeverityNextAction(escalation) ==
    IF escalation THEN "safe_zone_analysis" ELSE "create_event_record"

\* severity_assessment_node
severity_assessment_node ==
    /\ CanRun("severity_assessment")
    /\ \/ /\ \E tool_error \in BOOLEAN :
                /\ tool_error => CanFault
                /\ faults' = IF tool_error THEN faults + 1 ELSE faults
                /\ LET region   == monitoring_regions[1]
                       result ==
                           IF tool_error THEN SeverityToolError
                           ELSE severity_impact_analyzer(
                                    classification_results.disaster_type, 50,
                                    AffectedArea(region), region.population_density,
                                    InfrastructureCount(current_monitoring_data))
                   IN  /\ severity_score' = result.severity_score
                       /\ escalation_required' = result.escalation_required
                       /\ next_action' = SeverityNextAction(result.escalation_required)
          /\ UNCHANGED processing_errors
       \/ /\ CanFault
          /\ faults' = faults + 1
          /\ Fail("Severity assessment error")
          /\ next_action' = "create_event_record"
          /\ UNCHANGED <<severity_score, escalation_required>>
    /\ UNCHANGED <<current_monitoring_data, classification_results, search_results,
                   confirmation_status,
                   active_events, event_history, current_event_id,
                   planning_workflow_triggered, trigger_vars, retry_count, clock,
                   poll_failures, retries>>
    /\ Advance("severity_assessment")

\* safe_zone_analysis_node: both branches go on to create_event_record
safe_zone_analysis_node ==
    /\ CanRun("safe_zone_analysis")
    /\ \/ /\ UNCHANGED <<processing_errors, faults>>
       \/ /\ CanFault
          /\ faults' = faults + 1
          /\ Fail("Safe zone analysis error")
    /\ next_action' = "create_event_record"
    /\ UNCHANGED <<current_monitoring_data, classification_results, search_results,
                   confirmation_status,
                   severity_score, escalation_required, active_events, event_history,
                   current_event_id, planning_workflow_triggered, trigger_vars, retry_count,
                   clock, poll_failures, retries>>
    /\ Advance("safe_zone_analysis")

\* create_event_record_node: id = f"event_{now.strftime('%Y%m%d_%H%M%S')}",
\* the wall clock cut to the second.
EventId(now) == <<"event", now>>

\* A variant of EscalationCondition that looks at the classifier's severity
\* only, which C9 must tell from it.
EscalationCondition_SeverityOnly(escalation, severity_level) ==
    severity_level \in {"high", "critical", "extreme"}

\* create_event_record_node: the condition under which planning is triggered
EscalationCondition(escalation, severity_level) ==
    escalation \/ severity_level \in {"high", "critical", "extreme"}

\* create_event_record_node: next_action
EventNextAction(escalation, severity_level) ==
    IF EscalationCondition(escalation, severity_level)
    THEN "trigger_planning_workflow" ELSE "wait_interval"

\* create_event_record_node: the DisasterEvent built from the state
NewEvent(now) ==
    [id                  |-> EventId(now),
     disaster_type       |-> classification_results.disaster_type,
     severity            |-> classification_results.severity_level,
     status              |-> confirmation_status,
     escalation_required |-> escalation_required,
     severity_score      |-> severity_score]

\* create_event_record_node
create_event_record_node ==
    /\ CanRun("create_event_record")
    /\ \/ /\ IF classification_results = NoClassification
             THEN /\ next_action' = "wait_interval"
                  /\ UNCHANGED <<active_events, event_history, current_event_id,
                                 planning_workflow_triggered, clock>>
             ELSE \E now \in clock .. Min(clock + 1, MaxClock) :
                    /\ clock' = now
                    /\ active_events' = UpdatedActiveEvents(active_events, NewEvent(now))
                    /\ event_history' = UpdatedEventHistory(event_history, NewEvent(now))
                    /\ current_event_id' = EventId(now)
                    /\ planning_workflow_triggered' =
                           IF EscalationCondition(escalation_required,
                                                  classification_results.severity_level)
                           THEN TRUE ELSE planning_workflow_triggered
                    /\ next_action' = EventNextAction(escalation_required,
                                                      classification_results.severity_level)
          /\ UNCHANGED <<processing_errors, faults>>
       \/ /\ CanFault
          /\ faults' = faults + 1
          /\ Fail("Create event record error")
          /\ next_action' = "wait_interval"
          /\ UNCHANGED <<active_events, event_history, current_event_id,
                         planning_workflow_triggered, clock>>
    /\ UNCHANGED <<current_monitoring_data, classification_results, search_results,
                   confirmation_status,
                   severity_score, escalation_required, trigger_vars, retry_count,
                   poll_failures, retries>>
    /\ Advance("create_event_record")

\* trigger_planning_workflow_node: the event named by current_event_id is in
\* active_events
HasCurrentEvent ==
    /\ current_event_id # None
    /\ \E i \in DOMAIN active_events : active_events[i].id = current_event_id

\* trigger_planning_workflow_node
trigger_planning_workflow_node ==
    /\ CanRun("trigger_planning_workflow")
    /\ \/ /\ IF ~HasCurrentEvent
             THEN /\ next_action' = "wait_interval"
                  /\ UNCHANGED <<planning_workflow_triggered, trigger_vars>>
             ELSE /\ planning_workflow_triggered' = TRUE
                  /\ planning_workflow_id' = <<"planning", current_event_id>>
                  /\ alert_messages' = Append(alert_messages, current_event_id)
                  /\ notification_sent' = TRUE
                  /\ next_action' = "continue_monitoring"
          /\ UNCHANGED <<processing_errors, faults>>
       \/ /\ CanFault
          /\ faults' = faults + 1
          /\ Fail("Trigger planning workflow error")
          /\ next_action' = "wait_interval"
          /\ UNCHANGED <<planning_workflow_triggered, trigger_vars>>
    /\ UNCHANGED <<current_monitoring_data, classification_results, search_results,
                   confirmation_status,
                   severity_score, escalation_required, active_events, event_history,
                   current_event_id, retry_count, clock, poll_failures, retries>>
    /\ Advance("trigger_planning_workflow")

\* A variant of wait_interval_node that gives the next cycle its retries
\* back, which C31 must tell from it.
wait_interval_node_ResetsRetries ==
    /\ CanRun("wait_interval")
    /\ next_action' = "api_monitoring"
    /\ retry_count' = 0
    /\ UNCHANGED <<current_monitoring_data, classification_results, search_results,
                   confirmation_status,
                   severity_score, escalation_required, active_events, event_history,
                   current_event_id, planning_workflow_triggered, trigger_vars,
                   processing_errors, env_vars, retries>>
    /\ Advance("wait_interval")

\* wait_interval_node
wait_interval_node ==
    /\ CanRun("wait_interval")
    /\ next_action' = "api_monitoring"
    /\ UNCHANGED <<current_monitoring_data, classification_results, search_results,
                   confirmation_status,
                   severity_score, escalation_required, active_events, event_history,
                   current_event_id, planning_workflow_triggered, trigger_vars,
                   processing_errors, retry_count, env_vars, retries>>
    /\ Advance("wait_interval")

\* log_false_positive_node
log_false_positive_node ==
    /\ CanRun("log_false_positive")
    /\ next_action' = "wait_interval"
    /\ UNCHANGED <<current_monitoring_data, classification_results, search_results,
                   confirmation_status,
                   severity_score, escalation_required, active_events, event_history,
                   current_event_id, planning_workflow_triggered, trigger_vars,
                   processing_errors, retry_count, env_vars, retries>>
    /\ Advance("log_false_positive")

\* run_monitoring_cycle, except branch: the graph run used up its recursion
\* limit without the loop breaking; the GraphRecursionError is caught and an
\* error dict (error, session_id, timestamp) is returned instead of a state.
recursion_limit_reached ==
    /\ manager \in {"detection", "continuous"}
    /\ run_status = "running"
    /\ steps >= recursion_limit
    /\ run_status' = "error"
    /\ UNCHANGED <<session_vars, pc, steps, manager_vars, env_vars, hist_vars,
                   adapter_vars, fn_vars>>

DetectionStep ==
    \/ api_monitoring_node
    \/ data_analysis_node
    \/ watsonx_classification_node
    \/ web_search_confirmation_node
    \/ severity_assessment_node
    \/ safe_zone_analysis_node
    \/ create_event_record_node
    \/ trigger_planning_workflow_node
    \/ wait_interval_node
    \/ log_false_positive_node
    \/ recursion_limit_reached

\* ------------------------------------------- IntegratedDisasterManagement

\* run_complete_disaster_management: detection_result.get(
\* "planning_workflow_triggered", False); the error dict has no such key.
DetectionResultTriggered == run_status = "final" /\ planning_workflow_triggered

\* run_complete_disaster_management, after run_monitoring_cycle returned
\* without a planning trigger: the monitoring_only result.
return_monitoring_only ==
    /\ manager = "detection"
    /\ run_status \in {"final", "error"}
    /\ ~DetectionResultTriggered
    /\ manager' = "returned"
    /\ management_phase' = "monitoring_only"
    /\ UNCHANGED <<session_vars, run_vars, plan_pc, env_vars, hist_vars, adapter_vars, fn_vars>>

\* run_complete_disaster_management, phase 2: run_planning_cycle is started
\* on the state the detection run returned; the planning graph is entered at
\* load_planning_data.
start_planning ==
    /\ manager = "detection"
    /\ run_status \in {"final", "error"}
    /\ DetectionResultTriggered
    /\ manager' = "planning"
    /\ plan_pc' = "load_planning_data"
    /\ UNCHANGED <<session_vars, run_vars, management_phase, env_vars, hist_vars,
                   adapter_vars, fn_vars>>

\* -------------------------------------------------- run_continuous_monitoring

\* run_continuous_monitoring, after run_monitoring_cycle returned a final
\* state without "error": max_cycles is None, so the while loop goes round
\* and run_monitoring_cycle is called again; it starts the graph on a state
\* made by create_initial_state. No field of that state holds a time of the
\* cycle before, so the clock is read from the start of the new cycle, and
\* each cycle has its own budget of exceptions.
next_monitoring_cycle ==
    /\ manager = "continuous"
    /\ run_status = "final"
    /\ current_monitoring_data' = << >>
    /\ classification_results' = NoClassification
    /\ search_results' = << >>
    /\ confirmation_status' = "monitoring"
    /\ severity_score' = 0
    /\ escalation_required' = FALSE
    /\ active_events' = << >>
    /\ event_history' = << >>
    /\ current_event_id' = None
    /\ planning_workflow_triggered' = FALSE
    /\ planning_workflow_id' = None
    /\ alert_messages' = << >>
    /\ notification_sent' = FALSE
    /\ workflow_phase' = "monitoring"
    /\ next_action' = "poll_apis"
    /\ processing_errors' = << >>
    /\ retry_count' = 0
    /\ pc' = "api_monitoring"
    /\ steps' = 0
    /\ run_status' = "running"
    /\ last_node' = None
    /\ retries' = 0
    /\ clock' = 0
    /\ faults' = 0
    /\ poll_failures' = 0
    /\ UNCHANGED <<monitoring_regions, manager_vars, plan_trace, adapter_vars, fn_vars>>

\* run_continuous_monitoring, after run_monitoring_cycle returned the
\* {"error": ...} dict of its except branch: the loop breaks.
stop_on_cycle_error ==
    /\ manager = "continuous"
    /\ run_status = "error"
    /\ manager' = "stopped"
    /\ UNCHANGED <<session_vars, run_vars, management_phase, plan_pc, env_vars, hist_vars,
                   adapter_vars, fn_vars>>

ContinuousStep ==
    \/ next_monitoring_cycle
    \/ stop_on_cycle_error

\* ----------------------------------------------------------- planning graph

PlanningEnd == "END"

\* A variant of PlanRoute in which every step, not only load_planning_data,
\* is followed by planning_error_handling when it asks for it, which C10 must
\* tell from it.
PlanRoute_AnyErrorAborts(node, na) ==
    IF node \in {"planning_complete", "planning_error_handling"} THEN PlanningEnd
    ELSE IF na = "planning_error_handling" THEN "planning_error_handling"
    ELSE CASE node = "load_planning_data"           -> "assess_planning_requirements"
           [] node = "assess_planning_requirements" -> "create_deployment_plan"
           [] node = "create_deployment_plan"       -> "create_evacuation_plan"
           [] node = "create_evacuation_plan"       -> "coordinate_resources"
           [] node = "coordinate_resources"         -> "generate_notifications"
           [] node = "generate_notifications"       -> "send_notifications"
           [] node = "send_notifications"           -> "planning_complete"

\* A variant of PlanRoute with the edges of the two plan-building steps
\* swapped (evacuation before deployment), which C12 must tell from it.
PlanRoute_EvacuationFirst(node, na) ==
    CASE node = "load_planning_data" ->
            IF na = "planning_error_handling" THEN "planning_error_handling"
            ELSE "assess_planning_requirements"
      [] node = "assess_planning_requirements" -> "create_evacuation_plan"
      [] node = "create_evacuation_plan"       -> "create_deployment_plan"
      [] node = "create_deployment_plan"       -> "coordinate_resources"
      [] node = "coordinate_resources"         -> "generate_notifications"
      [] node = "generate_notifications"       -> "send_notifications"
      [] node = "send_notifications"           -> "planning_complete"
      [] node = "planning_complete"            -> PlanningEnd
      [] node = "planning_error_handling"      -> PlanningEnd

\* _route_from_data_loading with the edge map of the planning _build_workflow,
\* and the fixed edges of the planning graph.
PlanRoute(node, na) ==
    CASE node = "load_planning_data" ->
            IF na = "planning_error_handling" THEN "planning_error_handling"
            ELSE "assess_planning_requirements"
      [] node = "assess_planning_requirements" -> "create_deployment_plan"
      [] node = "create_deployment_plan"       -> "create_evacuation_plan"
      [] node = "create_evacuation_plan"       -> "coordinate_resources"
      [] node = "coordinate_resources"         -> "generate_notifications"
      [] node = "generate_notifications"       -> "send_notifications"
      [] node = "send_notifications"           -> "planning_complete"
      [] node = "planning_complete"            -> PlanningEnd
      [] node = "planning_error_handling"      -> PlanningEnd

\* run_planning_cycle: the stream loop stops at a state whose next_action is
\* "operational_monitoring" (or missing).
PlanningBreaks(na) == na \in {"operational_monitoring", None}

CanPlan(node) == manager = "planning" /\ plan_pc = node

\* The planning run after `node` returned a state with next_action'.
PlanAdvance(node) ==
    /\ plan_trace' = Append(plan_trace, node)
    /\ plan_pc' = IF PlanningBreaks(next_action') THEN PlanningEnd
                  ELSE PlanRoute(node, next_action')
    /\ UNCHANGED <<monitoring_regions, current_monitoring_data, classification_results,
                   search_results, confirmation_status, severity_score, escalation_required,
                   active_events, event_history, current_event_id,
                   planning_workflow_id, alert_messages, retry_count,
                   run_vars, manager, management_phase, clock, poll_failures,
                   last_node, retries, adapter_vars, fn_vars>>

\* A planning node that either returns with next_action = ok_action or takes
\* its except branch: the message is appended and next_action = err_action.
PlanStep(node, ok_action, msg, err_action) ==
    /\ CanPlan(node)
    /\ \/ /\ next_action' = ok_action
          /\ UNCHANGED <<processing_errors, faults>>
       \/ /\ CanFault
          /\ faults' = faults + 1
          /\ Fail(msg)
          /\ next_action' = err_action
    /\ PlanAdvance(node)

\* load_planning_data_node
load_planning_data_node ==
    /\ PlanStep("load_planning_data", "assess_planning_requirements",
                "Failed to load planning data", "planning_error_handling")
    /\ UNCHANGED <<workflow_phase, planning_workflow_triggered, notification_sent>>

\* assess_planning_requirements_node
assess_planning_requirements_node ==
    /\ PlanStep("assess_planning_requirements",
                IF HasCurrentEvent THEN "create_deployment_plan" ELSE "planning_complete",
                "Planning requirements assessment error", "planning_error_handling")
    /\ UNCHANGED <<workflow_phase, planning_workflow_triggered, notification_sent>>

\* create_deployment_plan_node
create_deployment_plan_node ==
    /\ PlanStep("create_deployment_plan", "create_evacuation_plan",
                "Deployment planning error", "create_evacuation_plan")
    /\ UNCHANGED <<workflow_phase, planning_workflow_triggered, notification_sent>>

\* create_evacuation_plan_node
create_evacuation_plan_node ==
    /\ PlanStep("create_evacuation_plan", "coordinate_resources",
                "Evacuation planning error", "coordinate_resources")
    /\ UNCHANGED <<workflow_phase, planning_workflow_triggered, notification_sent>>

\* coordinate_resources_node
coordinate_resources_node ==
    /\ PlanStep("coordinate_resources", "generate_notifications",
                "Resource coordination error", "generate_notifications")
    /\ UNCHANGED <<workflow_phase, planning_workflow_triggered, notification_sent>>

\* generate_notifications_node
generate_notifications_node ==
    /\ PlanStep("generate_notifications",
                IF HasCurrentEvent THEN "send_notifications" ELSE "planning_complete",
                "Notification generation error", "planning_complete")
    /\ UNCHANGED <<workflow_phase, planning_workflow_triggered, notification_sent>>

\* send_notifications_node: notification_sent is True on return and False in
\* the except branch.
send_notifications_node ==
    /\ PlanStep("send_notifications", "planning_complete",
                "Notification sending error", "planning_complete")
    /\ notification_sent' = (processing_errors' = processing_errors)
    /\ UNCHANGED <<workflow_phase, planning_workflow_triggered>>

\* A variant of CompletionPhase that stores the name of the next phase
\* instead of planning_completed, which C11 must tell from it.
CompletionPhase_NextPhase(ok) ==
    IF ok THEN "operational_monitoring" ELSE "planning_error"

\* planning_complete_node: workflow_phase, on return (ok) and in the except
\* branch
CompletionPhase(ok) == IF ok THEN "planning_completed" ELSE "planning_error"

\* planning_complete_node
planning_complete_node ==
    /\ PlanStep("planning_complete", "operational_monitoring",
                "Planning completion error", "planning_error_handling")
    /\ workflow_phase' = CompletionPhase(processing_errors' = processing_errors)
    /\ IF processing_errors' = processing_errors
       THEN planning_workflow_triggered' = TRUE
       ELSE UNCHANGED planning_workflow_triggered
    /\ UNCHANGED notification_sent

\* planning_error_handling_node (it has no except branch)
planning_error_handling_node ==
    /\ CanPlan("planning_error_handling")
    /\ workflow_phase' = "manual_coordination"
    /\ next_action' = "operational_monitoring"
    /\ UNCHANGED <<processing_errors, faults, planning_workflow_triggered,
                   notification_sent>>
    /\ PlanAdvance("planning_error_handling")

\* run_complete_disaster_management, after run_planning_cycle returned: the
\* combined result.
return_complete_response ==
    /\ manager = "planning"
    /\ plan_pc = PlanningEnd
    /\ manager' = "returned"
    /\ management_phase' = "complete_response"
    /\ UNCHANGED <<session_vars, run_vars, plan_pc, env_vars, hist_vars, adapter_vars, fn_vars>>

PlanningStep ==
    \/ load_planning_data_node
    \/ assess_planning_requirements_node
    \/ create_deployment_plan_node
    \/ create_evacuation_plan_node
    \/ coordinate_resources_node
    \/ generate_notifications_node
    \/ send_notifications_node
    \/ planning_complete_node
    \/ planning_error_handling_node

ManagerStep ==
    \/ return_monitoring_only
    \/ start_planning
    \/ return_complete_response

\* ---------------------------------------------------- DetectionReActAdapter

\* watsonx_disaster_classifier: ongoing, from the words of the description
Ongoing(text) == "ongoing" \in text

\* watsonx_disaster_classifier: detected_type, from the words of the description
DetectedType(text) == IF "flood" \in text THEN "flood" ELSE "unknown"

\* A variant of NeedsConfirmation that confirms every detected threat, which
\* C6 must tell from it.
NeedsConfirmation_AnyThreat(c) == c.threat_detected

\* DetectionReActAdapter.run: the condition for confirming
\* (classification.get("ongoing", False): a missing key counts as not ongoing)
NeedsConfirmation(c) == c.requires_confirmation /\ ~c.ongoing

\* DetectionReActAdapter.run: population_density and
\* critical_infrastructure_count passed to assess_severity
AdapterPopulationDensity == 1000

AdapterInfrastructureCount == 5

\* DetectionReActAdapter.run, "Act: classify" and the test that follows it
adapter_classify ==
    /\ adapter_pc = "classify"
    /\ \E tool_error \in BOOLEAN :
          classification' =
              watsonx_disaster_classifier(tool_error, Ongoing(situation_description),
                                          DetectedType(situation_description))
    /\ adapter_pc' = IF NeedsConfirmation(classification')
                     THEN "confirm" ELSE "assess_severity"
    /\ UNCHANGED <<radius_km, situation_description, confirmation, severity>>
    /\ UNCHANGED <<session_vars, run_vars, manager_vars, env_vars, hist_vars, fn_vars>>

\* DetectionReActAdapter.run, "Observe/Think: confirm if needed"
adapter_confirm ==
    /\ adapter_pc = "confirm"
    /\ \E setup_error \in BOOLEAN, outcomes \in [1..QueriesRun -> SearchOutcome] :
          confirmation' = web_search_disaster_confirmation(setup_error, outcomes)
    /\ adapter_pc' = "assess_severity"
    /\ UNCHANGED <<radius_km, situation_description, classification, severity>>
    /\ UNCHANGED <<session_vars, run_vars, manager_vars, env_vars, hist_vars, fn_vars>>

\* DetectionReActAdapter.run, "Act: assess severity", and the return
adapter_assess_severity ==
    /\ adapter_pc = "assess_severity"
    /\ \E tool_error \in BOOLEAN :
          severity' =
              IF tool_error THEN SeverityToolError
              ELSE severity_impact_analyzer(
                       classification.disaster_type, 50,
                       AffectedArea([radius_km |-> radius_km]),
                       AdapterPopulationDensity, AdapterInfrastructureCount)
    /\ adapter_pc' = "done"
    /\ UNCHANGED <<radius_km, situation_description, classification, confirmation>>
    /\ UNCHANGED <<session_vars, run_vars, manager_vars, env_vars, hist_vars, fn_vars>>

\* IntegratedOrchestratorManagement.run_complete_disaster_management: the
\* test under which planning is run on the adapter's answer.  The answer's
\* "confirmation" is not read.
OrchestratorPlans(c, s) ==
    /\ c.threat_detected
    /\ (s.escalation_required \/ c.severity_level \in {"high", "critical", "extreme"})

\* IntegratedOrchestratorManagement.run_complete_disaster_management, after
\* DetectionReActAdapter.run has returned.  The orchestrator calls the
\* adapter without a situation_description.  When planning is required the
\* planning adapter is run on the CSV data and its answer is put in the
\* result under planning_result; management_phase does not depend on it.
orchestrator_run_complete_disaster_management ==
    /\ adapter_pc = "done"
    /\ situation_description = {}
    /\ management_phase' =
          IF OrchestratorPlans(classification, severity)
          THEN "complete_response" ELSE "monitoring_only"
    /\ adapter_pc' = "returned"
    /\ UNCHANGED <<manager, plan_pc>>
    /\ UNCHANGED <<radius_km, situation_description, classification, confirmation, severity>>
    /\ UNCHANGED <<session_vars, run_vars, env_vars, hist_vars, fn_vars>>

AdapterStep ==
    \/ adapter_classify
    \/ adapter_confirm
    \/ adapter_assess_severity
    \/ orchestrator_run_complete_disaster_management

\* ------------------------------------------------ functions called alone

\* The function returns result.
Return(name, result) ==
    /\ fn = name
    /\ ~fn_done
    /\ fn_result' = result
    /\ fn_done' = TRUE
    /\ UNCHANGED <<fn, fn_args>>
    /\ UNCHANGED <<session_vars, run_vars, manager_vars, env_vars, hist_vars, adapter_vars>>

\* create_deployment_plan_node, from the try to team_deployments
call_create_deployment_plan_node ==
    Return("create_deployment_plan_node",
           TeamDeployments(fn_args.available_response_teams, fn_args.population_zones))

\* WatsonXPlanningOrchestrator.create_deployment_plan, on the answer parsed
call_validate_deployment_plan ==
    Return("validate_deployment_plan",
           validate_deployment_plan(fn_args.deployments, fn_args.available_teams,
                                    fn_args.population_zones))

\* create_evacuation_plan_node, from the try to evacuation_routes
call_create_evacuation_plan_node ==
    Return("create_evacuation_plan_node",
           EvacuationRoutes(fn_args.population_zones, fn_args.evacuation_zones))

\* assess_severity (orchestrator/tools.py): severity_impact_analyzer with the
\* magnitude in tenths and the area in hundredths of a km2
call_severity_impact_analyzer ==
    Return("severity_impact_analyzer",
           severity_impact_analyzer(fn_args.disaster_type, fn_args.magnitude_or_intensity,
                                    fn_args.affected_area_km2, fn_args.population_density,
                                    fn_args.critical_infrastructure_count))

\* confirm_disaster_via_web (orchestrator/tools.py)
call_web_search_disaster_confirmation ==
    Return("web_search_disaster_confirmation",
           web_search_disaster_confirmation(fn_args.setup_error, fn_args.outcomes))

\* WatsonXDisasterClassifier.classify_disaster, its fallback
call_create_fallback_classification ==
    Return("create_fallback_classification",
           create_fallback_classification(fn_args.monitoring_data))

\* WatsonXDisasterClassifier.classify_disaster
call_classify_disaster ==
    Return("classify_disaster",
           classify_disaster(fn_args.llm_raises, fn_args.response, fn_args.monitoring_data))

\* api_monitoring_node
call_api_monitoring_node ==
    Return("api_monitoring_node",
           api_monitoring_bookkeeping(fn_args.state, fn_args.raised, fn_args.success,
                                      fn_args.now))

\* create_event_record_node
call_create_event_record_node ==
    Return("create_event_record_node", event_record_bookkeeping(fn_args.state, fn_args.event))

\* DisasterMonitoringService.poll_all_sources
call_poll_all_sources ==
    Return("poll_all_sources", poll_all_sources(fn_args.outcomes, fn_args.order))

\* trigger_planning_workflow_node
call_trigger_planning_workflow_node ==
    Return("trigger_planning_workflow_node", trigger_planning_workflow(fn_args.state))

\* evacuation_capacity_optimizer
call_evacuation_capacity_optimizer ==
    Return("evacuation_capacity_optimizer",
           evacuation_capacity_optimizer(fn_args.population_zones,
                                         fn_args.evacuation_centers))

CallStep ==
    \/ call_create_deployment_plan_node
    \/ call_validate_deployment_plan
    \/ call_create_evacuation_plan_node
    \/ call_severity_impact_analyzer
    \/ call_web_search_disaster_confirmation
    \/ call_create_fallback_classification
    \/ call_classify_disaster
    \/ call_evacuation_capacity_optimizer
    \/ call_trigger_planning_workflow_node
    \/ call_poll_all_sources
    \/ call_api_monitoring_node
    \/ call_create_event_record_node

Next ==
    DetectionStep \/ PlanningStep \/ ManagerStep \/ ContinuousStep \/ AdapterStep \/ CallStep

Spec == Init /\ [][Next]_vars

\* ------------------------------------------------------------------- claims

\* C1: in every reachable state of a detection session retry_count is at
\* most max_retries, whatever number of consecutive api_monitoring failures
\* occurs.
C1_RetryCountBounded == retry_count <= max_retries

\* C1, the state the claim excludes: api_monitoring has failed once more than
\* max_retries times and retry_count has gone past max_retries.
C1_RetryCountExceeded ==
    /\ last_node = "api_monitoring"
    /\ retry_count = max_retries + 1
    /\ pc = "wait_interval"

\* C2: when api_monitoring takes its except branch the error message is
\* appended to processing_errors; while retry_count is under max_retries the
\* graph re-enters api_monitoring, otherwise it goes to wait_interval; the run
\* goes on (nothing is raised to the caller of the cycle); and a session
\* re-enters api_monitoring from api_monitoring at most max_retries times.
C2_RetryThenWait ==
    /\ [](retries <= max_retries)
    /\ [][ ( /\ pc = "api_monitoring"
             /\ steps' = steps + 1
             /\ monitoring_regions # << >>
             /\ processing_errors' # processing_errors )
           => ( /\ processing_errors' = Append(processing_errors, "API monitoring error")
                /\ pc' = IF retry_count < max_retries
                         THEN "api_monitoring" ELSE "wait_interval"
                /\ (pc' = "api_monitoring") = (retries' = retries + 1)
                /\ run_status' = "running" ) ]_vars

\* C2, its case: the retries are used up and the graph has gone to
\* wait_interval with every failure recorded.
C2_RetriesExhausted ==
    /\ last_node = "api_monitoring"
    /\ retries = max_retries
    /\ pc = "wait_interval"
    /\ run_status = "running"
    /\ Len(processing_errors) = max_retries + 1
    /\ \A i \in DOMAIN processing_errors : processing_errors[i] = "API monitoring error"

\* C3: whenever the classification step produces threat_detected = false the
\* node the graph routes to is wait_interval, never web_search_confirmation or
\* severity_assessment, for any values of requires_confirmation and ongoing.
C3_NoThreatGoesToWait ==
    /\ [](\A rc \in BOOLEAN, og \in BOOLEAN :
            LET na == ClassificationNextAction(
                          [threat_detected |-> FALSE, requires_confirmation |-> rc,
                           ongoing |-> og])
            IN  Route("watsonx_classification", na) = "wait_interval")
    /\ [][ ( /\ pc = "watsonx_classification"
             /\ steps' = steps + 1
             /\ processing_errors' = processing_errors
             /\ ~classification_results'.threat_detected )
           => pc' = "wait_interval" ]_vars

\* C3, its case: the classifier answered threat_detected = false and the
\* graph is at wait_interval.
C3_NoThreatClassified ==
    /\ last_node = "watsonx_classification"
    /\ classification_results # NoClassification
    /\ ~classification_results.threat_detected
    /\ processing_errors = << >>
    /\ pc = "wait_interval"

\* C4: once a detection run has escalated an event (create_event_record set
\* planning_workflow_triggered and routed to trigger_planning_workflow),
\* run_complete_disaster_management returns management_phase =
\* complete_response, whatever later polls return.
C4_EscalationGivesCompleteResponse ==
    (manager = "returned" /\ planning_workflow_triggered)
        => management_phase = "complete_response"

\* C4, the good case: an escalation followed by one planning run and the
\* combined result.
C4_EscalatedAndPlanned ==
    /\ manager = "returned"
    /\ management_phase = "complete_response"
    /\ active_events # << >>
    /\ plan_trace # << >>

\* C5: when the confirmation step answers confirmed = false the graph goes to
\* log_false_positive and from there to wait_interval; neither step appends
\* to active_events or event_history, and trigger_planning_workflow is not
\* on the way.
C5_UnconfirmedIsLogged ==
    /\ [][ ( /\ pc = "web_search_confirmation"
             /\ steps' = steps + 1
             /\ processing_errors' = processing_errors
             /\ confirmation_status' = "false_positive" )
           => ( /\ pc' = "log_false_positive"
                /\ UNCHANGED <<active_events, event_history>> ) ]_vars
    /\ [][ (pc = "log_false_positive" /\ steps' = steps + 1)
           => ( /\ pc' = "wait_interval"
                /\ last_node = "web_search_confirmation"
                /\ UNCHANGED <<active_events, event_history, planning_workflow_triggered,
                               planning_workflow_id>> ) ]_vars

\* C5, its case: an unconfirmed detection has been logged and the graph is
\* at wait_interval.
C5_FalsePositiveLogged ==
    /\ last_node = "log_false_positive"
    /\ confirmation_status = "false_positive"
    /\ pc = "wait_interval"

\* C6: web_search_confirmation is executed only after a classification with
\* requires_confirmation = true and ongoing not set; a detected threat whose
\* classification is ongoing (or needs no confirmation) goes from
\* classification directly to severity assessment.  This holds in the
\* detection graph and in DetectionReActAdapter.run.
C6_ConfirmationOnlyWhenRequired ==
    /\ [](\A rc \in BOOLEAN, og \in BOOLEAN :
            LET c  == [threat_detected |-> TRUE, requires_confirmation |-> rc,
                       ongoing |-> og]
                to == Route("watsonx_classification", ClassificationNextAction(c))
            IN  to = IF rc /\ ~og THEN "web_search_confirmation" ELSE "severity_assessment")
    /\ [][ (pc' = "web_search_confirmation" /\ steps' = steps + 1)
           => ( /\ pc = "watsonx_classification"
                /\ classification_results'.threat_detected
                /\ classification_results'.requires_confirmation
                /\ ~classification_results'.ongoing ) ]_vars
    /\ [][ (adapter_pc = "classify" /\ adapter_pc' # adapter_pc)
           => ( /\ (adapter_pc' = "confirm")
                      = (classification'.requires_confirmation /\ ~classification'.ongoing)
                /\ (adapter_pc' # "confirm")
                      => (adapter_pc' = "assess_severity" /\ confirmation' = NoConfirmation) ) ]_vars
    /\ [][ confirmation' # confirmation
           => ( /\ adapter_pc = "confirm"
                /\ classification.requires_confirmation
                /\ ~classification.ongoing ) ]_vars

\* C6, its case: a threat classified as ongoing has gone to severity
\* assessment with no confirmation made.
C6_OngoingSkipsConfirmation ==
    /\ adapter_pc = "done"
    /\ classification.threat_detected
    /\ classification.ongoing
    /\ confirmation = NoConfirmation
    /\ severity # NoSeverity

\* C7: when the corroboration queries fail (every query raises, or the search
\* tool errors as a whole, so that no search result comes back) the graph
\* goes on to severity_assessment, not to log_false_positive or wait_interval.
C7_FailedQueriesGoToSeverity ==
    [][ ( /\ pc = "web_search_confirmation"
          /\ steps' = steps + 1
          /\ processing_errors' = processing_errors
          /\ search_results' = << >> )
        => pc' = "severity_assessment" ]_vars

\* C7, the state the claim excludes: no query returned and the detection is
\* on its way to the false-positive log.
C7_FailedQueriesLoggedAsFalsePositive ==
    /\ last_node = "web_search_confirmation"
    /\ search_results = << >>
    /\ processing_errors = << >>
    /\ confirmation_status = "false_positive"
    /\ pc = "log_false_positive"

\* C8: any two DisasterEvents created within one session have different ids,
\* for every spacing in time between the executions of create_event_record.
C8_EventIdsUnique ==
    /\ \A i, j \in DOMAIN active_events :
          i # j => active_events[i].id # active_events[j].id
    /\ \A i, j \in DOMAIN event_history :
          i # j => event_history[i].id # event_history[j].id

\* C8, the state the claim excludes: two events of one session made within
\* the same second bear the same id.
C8_TwoEventsOneId ==
    /\ Len(active_events) = 2
    /\ active_events[1].id = active_events[2].id
    /\ last_node = "create_event_record"

\* C9: after create_event_record made an event the graph goes to
\* trigger_planning_workflow exactly when escalation_required is true or the
\* classification's severity_level is high, critical or extreme; otherwise
\* it goes to wait_interval.
C9_TriggerIffEscalation ==
    /\ [](\A e \in BOOLEAN, l \in SeverityLevel :
            Route("create_event_record", EventNextAction(e, l)) =
                IF e \/ l \in {"high", "critical", "extreme"}
                THEN "trigger_planning_workflow" ELSE "wait_interval")
    /\ [][ ( /\ pc = "create_event_record"
             /\ steps' = steps + 1
             /\ Len(active_events') = Len(active_events) + 1 )
           => pc' = IF \/ escalation_required
                       \/ classification_results.severity_level
                              \in {"high", "critical", "extreme"}
                    THEN "trigger_planning_workflow" ELSE "wait_interval" ]_vars

\* C9, its case: an event with escalation_required was made and the graph is
\* at trigger_planning_workflow.
C9_EscalatedEventTriggers ==
    /\ last_node = "create_event_record"
    /\ escalation_required
    /\ active_events # << >>
    /\ pc = "trigger_planning_workflow"

\* C10 as stated: a failure of any single planning step is recorded and the
\* next step is still executed, so that no step failure ends the planning run
\* before planning_complete has run.
C10_NoFailureEndsPlanningEarly ==
    (manager = "planning" /\ plan_pc = PlanningEnd)
        => plan_trace[Len(plan_trace)] = "planning_complete"

\* C10, amended: a failure of any step after load_planning_data
\* (assess_planning_requirements, create_deployment_plan,
\* create_evacuation_plan, coordinate_resources, generate_notifications,
\* send_notifications) is recorded in processing_errors and the next step of
\* the sequence is still executed; a planning run whose load_planning_data
\* did not fail ends with planning_complete.
C10_FailureAfterLoadContinues ==
    /\ [][ ( /\ manager = "planning"
             /\ plan_pc \in {"assess_planning_requirements", "create_deployment_plan",
                             "create_evacuation_plan", "coordinate_resources",
                             "generate_notifications", "send_notifications"}
             /\ processing_errors' # processing_errors )
           => ( /\ Len(processing_errors') = Len(processing_errors) + 1
                /\ SubSeq(processing_errors', 1, Len(processing_errors)) = processing_errors
                /\ plan_trace' = Append(plan_trace, plan_pc)
                /\ plan_pc' =
                       CASE plan_pc = "assess_planning_requirements" -> "create_deployment_plan"
                         [] plan_pc = "create_deployment_plan"       -> "create_evacuation_plan"
                         [] plan_pc = "create_evacuation_plan"       -> "coordinate_resources"
                         [] plan_pc = "coordinate_resources"         -> "generate_notifications"
                         [] plan_pc = "generate_notifications"       -> "send_notifications"
                         [] plan_pc = "send_notifications"           -> "planning_complete" ) ]_vars
    /\ []( ( /\ manager = "planning"
             /\ plan_pc = PlanningEnd
             /\ \A i \in DOMAIN processing_errors :
                    processing_errors[i] # "Failed to load planning data" )
           => plan_trace[Len(plan_trace)] = "planning_complete" )

\* C10, its case: a step after load_planning_data failed, the failure is
\* recorded and the run went on to planning_complete.
C10_FailedStepThenComplete ==
    /\ manager = "planning"
    /\ plan_pc = PlanningEnd
    /\ plan_trace = <<"load_planning_data", "assess_planning_requirements",
                      "create_deployment_plan", "create_evacuation_plan",
                      "coordinate_resources", "generate_notifications",
                      "send_notifications", "planning_complete">>
    /\ processing_errors = <<"Evacuation planning error">>

C12_PlanningOrder ==
    LET order == <<"load_planning_data", "assess_planning_requirements",
                   "create_deployment_plan", "create_evacuation_plan",
                   "coordinate_resources", "generate_notifications",
                   "send_notifications", "planning_complete">>
    IN  \A i \in DOMAIN plan_trace :
           \/ i <= Len(order) /\ plan_trace[i] = order[i]
           \/ /\ plan_trace[i] = "planning_error_handling"
              /\ i = Len(plan_trace)

\* C12, its case: a planning run has executed all eight steps.
C12_AllStepsRan ==
    /\ manager = "planning"
    /\ Len(plan_trace) = 8
    /\ plan_trace[8] = "planning_complete"
    /\ workflow_phase = "planning_completed"
    /\ processing_errors = << >>

\* C13: a deployment entry whose team_id or target_zone_id is not an id of
\* the loaded teams and zones is not in the final deployments, the other
\* entries are all kept, and a list comes back. The planner that asks a
\* language model (WatsonXPlanningOrchestrator.create_deployment_plan) filters
\* the answer; create_deployment_plan_node calls the optimizer tool, which
\* takes every id it writes from the teams and zones it was given.
C13_InvalidDeploymentsDropped ==
    /\ (fn = "validate_deployment_plan" /\ fn_done) =>
          LET known(d) == /\ d.team_id \in TeamIds(fn_args.available_teams)
                          /\ d.target_zone_id \in ZoneIds(fn_args.population_zones)
              Occurrences(s, d) == Cardinality({i \in DOMAIN s : s[i] = d})
          IN  /\ \A i \in DOMAIN fn_result : known(fn_result[i])
              /\ \A d \in DeploymentChoices :
                    known(d) => Occurrences(fn_result, d) = Occurrences(fn_args.deployments, d)
              /\ Len(fn_result) =
                    Cardinality({i \in DOMAIN fn_args.deployments : known(fn_args.deployments[i])})
    /\ (fn = "create_deployment_plan_node" /\ fn_done) =>
          \A i \in DOMAIN fn_result :
              /\ fn_result[i].team_id \in TeamIds(fn_args.available_response_teams)
              /\ fn_result[i].target_zone_id \in ZoneIds(fn_args.population_zones)

\* C13 witness: of two entries answered, one names an unknown id and is
\* dropped, the other is kept.
C13_OneDroppedOneKept ==
    /\ fn = "validate_deployment_plan"
    /\ fn_done
    /\ Len(fn_args.deployments) = 2
    /\ Len(fn_result) = 1
    /\ \E i \in DOMAIN fn_args.deployments :
          fn_args.deployments[i].team_id \notin TeamIds(fn_args.available_teams)

\* C14: every route of the final evacuation_routes goes from the zone_id of
\* a loaded population zone to the zone_id of a loaded evacuation center.
C14_RoutesReferenceLoadedIds ==
    (fn = "create_evacuation_plan_node" /\ fn_done) =>
        \A k \in DOMAIN fn_result :
            /\ fn_result[k].from_zone_id \in ZoneIds(fn_args.population_zones)
            /\ fn_result[k].to_zone_id \in ZoneIds(fn_args.evacuation_zones)

\* C14: a route whose from_zone_id is the id of no loaded population zone
C14_RouteFromUnknownZone ==
    /\ fn = "create_evacuation_plan_node"
    /\ fn_done
    /\ \E k \in DOMAIN fn_result :
          fn_result[k].from_zone_id \notin ZoneIds(fn_args.population_zones)

\* C15: a session has one context; the context a monitoring cycle of
\* run_continuous_monitoring starts from is the one the cycle before left, so
\* event_history, active_events and retry_count carry over.
C15_ContextCarriesOver ==
    [][(manager = "continuous" /\ run_status = "final" /\ run_status' = "running") =>
          /\ event_history' = event_history
          /\ active_events' = active_events
          /\ retry_count' = retry_count]_vars

\* C15: a cycle of run_continuous_monitoring has ended with a retry counted
\* and an event in the history, and the next cycle is about to start.
C15_CycleLeavesContext ==
    /\ manager = "continuous"
    /\ run_status = "final"
    /\ retry_count > 0
    /\ event_history # << >>
    /\ ENABLED next_monitoring_cycle

\* C16: no error in a detection step halts the loop of
\* run_continuous_monitoring (called without max_cycles, it never stops).
C16_LoopNeverHalts == manager # "stopped"

\* C16: the loop has stopped after a cycle whose steps failed.
C16_LoopHaltedByStepErrors ==
    /\ manager = "stopped"
    /\ run_status = "error"
    /\ processing_errors # << >>

\* C17: the severity assessor sets escalation_required exactly when the
\* severity score is strictly greater than 0.5.
C17_EscalationIffScoreOverHalf ==
    (fn = "severity_impact_analyzer" /\ fn_done) =>
        (fn_result.escalation_required <=> fn_result.severity_score > 50)

\* C17: escalation is required although the score is not over 0.5.
C17_EscalatesAtScoreUpToHalf ==
    /\ fn = "severity_impact_analyzer"
    /\ fn_done
    /\ fn_result.escalation_required
    /\ fn_result.severity_score <= 50

\* C18: the severity score is the sum of the magnitude, population,
\* infrastructure and area tiers, the level is extreme from 0.8, critical
\* from 0.6, high from 0.4, moderate from 0.2 and low below; high magnitude,
\* 15,000 at risk, 12 facilities and 150 km2 give 1.0, extreme and escalation.
C18_ScoreIsTierSumAndLevelByThreshold ==
    (fn = "severity_impact_analyzer" /\ fn_done) =>
        LET mag   == fn_args.magnitude_or_intensity
            pop   == fn_result.population_at_risk
            n     == fn_args.critical_infrastructure_count
            area  == fn_args.affected_area_km2
            tiers == (IF fn_args.disaster_type = "earthquake" /\ mag >= 60 THEN 40
                      ELSE IF fn_args.disaster_type = "earthquake" /\ mag >= 40 THEN 20
                      ELSE 0)
                     + (IF pop > 10000 THEN 30 ELSE IF pop > 1000 THEN 15 ELSE 0)
                     + (IF n > 10 THEN 20 ELSE IF n > 0 THEN 10 ELSE 0)
                     + (IF area > 10000 THEN 10 ELSE 0)
            score == fn_result.severity_score
        IN  /\ score = tiers
            /\ fn_result.severity_level =
                  (IF score >= 80 THEN "extreme"
                   ELSE IF score >= 60 THEN "critical"
                   ELSE IF score >= 40 THEN "high"
                   ELSE IF score >= 20 THEN "moderate"
                   ELSE "low")
            /\ (fn_args.disaster_type = "earthquake" /\ mag >= 60 /\ pop = 15000
                  /\ n = 12 /\ area = 15000) =>
                  /\ score = 100
                  /\ fn_result.severity_level = "extreme"
                  /\ fn_result.escalation_required

\* C18: the tiers add up to 0.8 and the score returned is 0.8, but the level
\* is critical.
C18_ScoreEightTenthsIsCritical ==
    /\ fn = "severity_impact_analyzer"
    /\ fn_done
    /\ fn_result.severity_score = 80
    /\ fn_result.severity_level = "critical"

\* C19: the confirmation gate returns confirmed exactly when corroborating
\* results / queries issued is over 0.3, and confirmation_confidence is that
\* ratio; one corroborating result of two queries gives 0.5 and confirmed.
C19_ConfirmedByShareOfQueriesIssued ==
    (fn = "web_search_disaster_confirmation" /\ fn_done /\ ~fn_result.error) =>
        LET corroborating == Cardinality({k \in DOMAIN fn_args.outcomes :
                                             fn_args.outcomes[k] = "hit"})
            issued == Len(fn_args.outcomes)
        IN  /\ fn_result.confirmation_confidence = (corroborating * 100) \div issued
            /\ fn_result.confirmed <=> (corroborating * 100 > 30 * issued)

\* C19: one of the two queries issued corroborates and the result is not
\* confirmed, with confidence 0.25.
C19_OneOfTwoNotConfirmed ==
    /\ fn = "web_search_disaster_confirmation"
    /\ fn_done
    /\ Len(fn_args.outcomes) = 2
    /\ Cardinality({k \in DOMAIN fn_args.outcomes : fn_args.outcomes[k] = "hit"}) = 1
    /\ ~fn_result.confirmed
    /\ fn_result.confirmation_confidence = 25

\* C20: the fallback classifier returns threat_detected = (total_alerts > 0),
\* confidence = min(total_alerts * 0.2, 0.8), severity_level = moderate if
\* total_alerts > 2 else low, and requires_confirmation = threat_detected;
\* 3 alerts give 0.6 and moderate, 0 alerts give no threat.
C20_FallbackClassification ==
    (fn = "create_fallback_classification" /\ fn_done) =>
        LET counts == [i \in DOMAIN fn_args.monitoring_data |->
                          fn_args.monitoring_data[i].alerts_count]
            total_alerts ==
                (IF Len(counts) >= 1 THEN counts[1] ELSE 0)
                + (IF Len(counts) >= 2 THEN counts[2] ELSE 0)
                + (IF Len(counts) >= 3 THEN counts[3] ELSE 0)
                + (IF Len(counts) >= 4 THEN counts[4] ELSE 0)
        IN  /\ Len(counts) <= 4
            /\ fn_result.threat_detected <=> total_alerts > 0
            /\ fn_result.confidence_score =
                  (IF total_alerts * 20 < 80 THEN total_alerts * 20 ELSE 80)
            /\ fn_result.severity_level = (IF total_alerts > 2 THEN "moderate" ELSE "low")
            /\ fn_result.requires_confirmation = fn_result.threat_detected
            /\ total_alerts = 3 =>
                  fn_result.confidence_score = 60 /\ fn_result.severity_level = "moderate"
            /\ total_alerts = 0 => ~fn_result.threat_detected

\* C20 witness: the fallback has classified more than four alerts, so the
\* cap of the confidence applies.
C20_FallbackCapped ==
    /\ fn = "create_fallback_classification"
    /\ fn_done
    /\ fn_args.monitoring_data # << >>
    /\ fn_result.confidence_score = 80
    /\ \E i \in DOMAIN fn_args.monitoring_data, j \in DOMAIN fn_args.monitoring_data :
          i # j /\ fn_args.monitoring_data[i].alerts_count = 3
                /\ fn_args.monitoring_data[j].alerts_count = 3

\* C21: every classification produced (by the tool the graph calls, by the
\* language model whatever it answers, by the fallback rule or by an error
\* path) has disaster_type in DisasterType, severity_level in SeverityLevel
\* and 0 <= confidence <= 1.
C21_ClassificationWellFormed ==
    /\ classification_results # NoClassification =>
          /\ classification_results.disaster_type \in DisasterType
          /\ classification_results.severity_level \in SeverityLevel
          /\ classification_results.confidence_score \in 0..100
    /\ (fn = "classify_disaster" /\ fn_done) =>
          /\ fn_result.disaster_type \in DisasterType
          /\ fn_result.severity_level \in SeverityLevel
          /\ fn_result.confidence_score.kind = "number"
          /\ fn_result.confidence_score.value \in 0..100

\* C21: the model answered a JSON object whose confidence_score is NaN and
\* the classification returned has confidence nan.
C21_ConfidenceIsNaN ==
    /\ fn = "classify_disaster"
    /\ fn_done
    /\ fn_args.response.json
    /\ fn_args.response.confidence_score = NaN
    /\ fn_result.confidence_score = NaN

\* C22: after an api_monitoring step whose polling returned, for every source
\* s the poll time of s is the time of this step, and the error count of s
\* is 0 if s succeeded and its previous value + 1 if s failed.
C22_PollBookkeeping ==
    (fn = "api_monitoring_node" /\ fn_done /\ ~fn_args.raised) =>
        \A s \in APISource :
            /\ fn_result.last_api_poll_times[s] = fn_args.now
            /\ fn_args.success[s] => fn_result.api_error_counts[s] = 0
            /\ ~fn_args.success[s] =>
                  fn_result.api_error_counts[s] = fn_args.state.api_error_counts[s] + 1

\* C22 witness: sources that had failed twice before; one succeeds and is
\* reset, another fails again and is counted.
C22_OneResetOneCounted ==
    /\ fn = "api_monitoring_node"
    /\ fn_done
    /\ ~fn_args.raised
    /\ fn_args.state.api_error_counts["usgs_earthquake"] = 2
    /\ fn_args.success["usgs_earthquake"]
    /\ ~fn_args.success["noaa_weather"]
    /\ fn_result.api_error_counts["usgs_earthquake"] = 0
    /\ fn_result.api_error_counts["noaa_weather"] = 3

\* C24: monitoring_history holds at most 100 entries and event_history at
\* most 50, and what is kept is the most recent suffix of everything
\* appended.
C24_HistoriesCappedOldestFirst ==
    /\ Len(event_history) <= 50
    /\ (fn = "api_monitoring_node" /\ fn_done /\ ~fn_args.raised) =>
          LET before == fn_args.state.monitoring_history
              after  == fn_result.monitoring_history
              newest == (IF before = << >> THEN 0 ELSE before[Len(before)]) + 5
          IN  /\ Len(after) = (IF Len(before) + 5 > 100 THEN 100 ELSE Len(before) + 5)
              /\ \A i \in DOMAIN after : after[i] = newest - Len(after) + i
    /\ (fn = "create_event_record_node" /\ fn_done) =>
          LET before == fn_args.state.event_history
              after  == fn_result.event_history
          IN  /\ Len(after) = (IF Len(before) + 1 > 50 THEN 50 ELSE Len(before) + 1)
              /\ after[Len(after)] = fn_args.event
              /\ \A i \in 1..(Len(after) - 1) :
                    after[i] = before[Len(before) - (Len(after) - 1) + i]

\* C24 witness: a poll on a full monitoring_history; the five oldest
\* entries are gone.
C24_OldestFiveEvicted ==
    /\ fn = "api_monitoring_node"
    /\ fn_done
    /\ ~fn_args.raised
    /\ Len(fn_args.state.monitoring_history) = 100
    /\ Len(fn_result.monitoring_history) = 100
    /\ fn_result.monitoring_history[1] = 6

C23_EverySourceGetsItsOwnResult ==
    (fn = "poll_all_sources" /\ fn_done) =>
        /\ DOMAIN fn_result = APISource
        /\ \A s \in APISource :
              /\ fn_result[s].source = s
              /\ fn_result[s].success = (fn_args.outcomes[s] = "succeeded")
              /\ fn_result[s].error_message =
                    (IF fn_args.outcomes[s] = "succeeded" THEN None ELSE s \o " error")

\* C23 witness: the last task completes first, the first one raises, another
\* one fails, and the rest succeed.
C23_MixedOutcomesOutOfOrder ==
    /\ fn = "poll_all_sources"
    /\ fn_done
    /\ fn_args.order[1] = 5
    /\ fn_args.outcomes["usgs_earthquake"] = "raised"
    /\ fn_args.outcomes["fema_open"] = "failed"
    /\ fn_args.outcomes["osm_overpass"] = "succeeded"
    /\ ~fn_result["usgs_earthquake"].success
    /\ fn_result["osm_overpass"].success

\* C26: planning_workflow_triggered goes from false to true at most once per
\* event: it becomes true only in the create_event_record step, for the
\* event that step has just appended and made current, and once true it
\* stays true for as long as the state lives (only the fresh state of the
\* next monitoring cycle, which holds no event, has it false again); the
\* later assignments by trigger_planning_workflow and planning_complete find
\* it true.
C26_TriggeredAtMostOncePerEvent ==
    /\ [][ (~planning_workflow_triggered /\ planning_workflow_triggered') =>
              /\ pc = "create_event_record"
              /\ Len(active_events') = Len(active_events) + 1
              /\ active_events'[Len(active_events')].id = current_event_id'
              /\ SubSeq(active_events', 1, Len(active_events)) = active_events ]_vars
    /\ [][ (planning_workflow_triggered /\ ~planning_workflow_triggered') =>
              /\ manager = "continuous"
              /\ run_status = "final"
              /\ active_events' = << >>
              /\ current_event_id' = None ]_vars

\* C26 witness: planning has completed for the event that triggered it;
\* trigger_planning_workflow and planning_complete have both assigned the
\* flag since it became true.
C26_TriggeredThenPlanned ==
    /\ planning_workflow_triggered
    /\ notification_sent
    /\ workflow_phase = "planning_completed"
    /\ Len(active_events) >= 1

\* C28: one call of run_monitoring_cycle runs a single monitoring cycle:
\* api_monitoring is not entered again after wait_interval and at most one
\* DisasterEvent is created.
C28_SingleCyclePerCall ==
    /\ ~(last_node = "wait_interval" /\ pc = "api_monitoring")
    /\ Len(active_events) <= 1

\* C28, the state the claim excludes: after an escalation the graph went
\* through trigger_planning_workflow and wait_interval, polled again and
\* created a second event in the same call.
C28_SecondEventInOneCall ==
    /\ last_node = "create_event_record"
    /\ steps > 1
    /\ planning_workflow_triggered
    /\ notification_sent
    /\ Len(active_events) = 2

\* C29: end to end, a high magnitude tier, 12,000 people at risk and 5
\* facilities give a severity score >= 0.6 and escalation_required; a
\* management run that escalated with such a score returns with planning
\* done; and planning on non-empty teams, zones and centers reports at least
\* one deployment and at least one route.
C29_EndToEndScenario ==
    /\ (fn = "severity_impact_analyzer" /\ fn_done
          /\ fn_args.disaster_type = "earthquake"
          /\ fn_args.magnitude_or_intensity >= 60
          /\ fn_result.population_at_risk = 12000
          /\ fn_args.critical_infrastructure_count = 5) =>
          (fn_result.severity_score >= 60 /\ fn_result.escalation_required)
    /\ (manager = "returned" /\ severity_score >= 60 /\ escalation_required
          /\ active_events # << >>) =>
          (management_phase = "complete_response" /\ plan_trace # << >>)
    /\ (fn = "create_deployment_plan_node" /\ fn_done
          /\ fn_args.available_response_teams # << >>
          /\ fn_args.population_zones # << >>) =>
          Len(fn_result) >= 1
    /\ (fn = "create_evacuation_plan_node" /\ fn_done
          /\ fn_args.population_zones # << >>
          /\ fn_args.evacuation_zones # << >>) =>
          Len(fn_result) >= 1

\* C29: the run escalated with a score of at least 0.6 and created its
\* events, and returned without planning.
C29_EscalatedWithoutPlanning ==
    /\ manager = "returned"
    /\ severity_score >= 60
    /\ escalation_required
    /\ planning_workflow_triggered
    /\ management_phase = "monitoring_only"
    /\ plan_trace = << >>

\* C30: in the detection graph the machine reaches wait_interval from every
\* node after finitely many steps, whatever the external calls return or
\* raise: every step of a node other than wait_interval either routes to
\* wait_interval or brings the machine strictly closer to it, where the
\* distance of api_monitoring counts the retries left (its self-retry is the
\* only edge that stays at a node), so at most 11 steps lead to
\* wait_interval; and a run that ends normally ends there.  (Only the
\* recursion limit of a run that has already gone through wait_interval
\* can stop the machine on its way.)
C30_EveryNodeLeadsToWait ==
    /\ [][ LET Rank(node, rc) ==
                   CASE node = "wait_interval"             -> 0
                     [] node = "log_false_positive"        -> 1
                     [] node = "trigger_planning_workflow" -> 1
                     [] node = "create_event_record"       -> 2
                     [] node = "safe_zone_analysis"        -> 3
                     [] node = "severity_assessment"       -> 4
                     [] node = "web_search_confirmation"   -> 5
                     [] node = "watsonx_classification"    -> 6
                     [] node = "data_analysis"             -> 7
                     [] node = "api_monitoring"            ->
                            8 + (IF rc < max_retries THEN max_retries - rc ELSE 0)
           IN  (pc # "wait_interval" /\ steps' = steps + 1) =>
                  \/ pc' = "wait_interval"
                  \/ Rank(pc', retry_count') < Rank(pc, retry_count) ]_vars
    /\ [](run_status = "final" => pc = "wait_interval")

\* C30 witness: the poll raised until the retries were used up (three
\* self-retries and a fourth failure), and the machine went on to
\* wait_interval.
C30_RetriesUsedUpThenWait ==
    /\ monitoring_regions # << >>
    /\ last_node = "api_monitoring"
    /\ retry_count = max_retries + 1
    /\ retries = max_retries
    /\ pc = "wait_interval"

\* C31: retry_count never decreases during a detection run: no step of the
\* graph lowers it, a successful api_monitoring step and the wait_interval
\* step leave it as it is, and so a poll failure that finds the count at
\* max_retries or more, from whichever cycle of the run the earlier failures
\* came, goes to wait_interval without a retry.
C31_RetryCountNeverDecreases ==
    /\ [][ steps' = steps + 1 => retry_count' >= retry_count ]_vars
    /\ [][ (pc = "wait_interval" /\ steps' = steps + 1) =>
              retry_count' = retry_count ]_vars
    /\ [][ (pc = "api_monitoring" /\ steps' = steps + 1
              /\ processing_errors' = processing_errors) =>
              retry_count' = retry_count ]_vars
    /\ [][ (pc = "api_monitoring" /\ steps' = steps + 1
              /\ retry_count' = retry_count + 1 /\ retry_count >= max_retries) =>
              pc' = "wait_interval" ]_vars

\* C31 witness: a poll failed in an earlier cycle of the run, the run went
\* through wait_interval, and the next cycle starts with the count it left.
C31_FailureCarriedPastWait ==
    /\ last_node = "wait_interval"
    /\ pc = "api_monitoring"
    /\ run_status = "running"
    /\ retry_count >= 1
    /\ monitoring_regions # << >>

C33_EventsDetectedOrConfirmed ==
    /\ \A i \in DOMAIN active_events : active_events[i].status \in {"detected", "confirmed"}
    /\ \A i \in DOMAIN event_history : event_history[i].status \in {"detected", "confirmed"}

\* C33: the confirmation step raised, the graph went on to the severity
\* assessment, and the event was recorded with the status monitoring that
\* create_initial_state had set.
C33_EventRecordedAsMonitoring ==
    /\ last_node = "create_event_record"
    /\ processing_errors = <<"Web search confirmation error">>
    /\ search_results = << >>
    /\ active_events # << >>
    /\ active_events[Len(active_events)].status = "monitoring"

\* C34: in every reachable state of a detection run,
\* planning_workflow_triggered implies that current_event_id is set and
\* names an event present in active_events; and trigger_planning_workflow_node,
\* given a state without such an event, changes nothing but next_action.
C34_TriggeredHasCurrentEvent ==
    /\ planning_workflow_triggered =>
          /\ current_event_id # None
          /\ \E i \in DOMAIN active_events : active_events[i].id = current_event_id
    /\ (fn = "trigger_planning_workflow_node" /\ fn_done
          /\ \A i \in DOMAIN fn_args.state.active_events :
                fn_args.state.active_events[i].id # fn_args.state.current_event_id) =>
          fn_result = [fn_args.state EXCEPT !.next_action = "wait_interval"]

\* C34 witness: the trigger step found the current event, the one just
\* recorded, and named the planning workflow after it.
C34_TriggerFoundItsEvent ==
    /\ last_node = "trigger_planning_workflow"
    /\ planning_workflow_triggered
    /\ planning_workflow_id = <<"planning", current_event_id>>
    /\ active_events[Len(active_events)].id = current_event_id
    /\ processing_errors = << >>

\* C35: when api_monitoring fails with an error (no region configured, or
\* the step raised), the step changes only processing_errors, by one message
\* appended, retry_count and next_action: current_monitoring_data,
\* monitoring_history, last_api_poll_times, api_error_counts, active_events
\* and event_history are left unchanged.
C35_FailedPollLeavesData ==
    /\ [][ (pc = "api_monitoring" /\ steps' = steps + 1
              /\ processing_errors' # processing_errors) =>
              /\ Len(processing_errors') = Len(processing_errors) + 1
              /\ SubSeq(processing_errors', 1, Len(processing_errors)) = processing_errors
              /\ retry_count' \in {retry_count, retry_count + 1}
              /\ UNCHANGED <<current_monitoring_data, active_events, event_history,
                             classification_results, search_results, confirmation_status,
                             severity_score, escalation_required, current_event_id,
                             planning_workflow_triggered, planning_workflow_id,
                             alert_messages, notification_sent>> ]_vars
    /\ [](  (fn = "api_monitoring_node" /\ fn_done /\ fn_args.raised) =>
              /\ fn_result.monitoring_history = fn_args.state.monitoring_history
              /\ fn_result.last_api_poll_times = fn_args.state.last_api_poll_times
              /\ fn_result.api_error_counts = fn_args.state.api_error_counts
              /\ fn_result.processing_errors =
                    Append(fn_args.state.processing_errors, "API monitoring error")
              /\ fn_result.retry_count = fn_args.state.retry_count + 1 )

\* C35 witness: a poll raised in a run that already holds monitoring data
\* and an event from an earlier loop; both are still there.
C35_FailedPollAfterEvent ==
    /\ last_node = "api_monitoring"
    /\ pc = "api_monitoring"
    /\ retry_count = 1
    /\ Len(processing_errors) = 1
    /\ current_monitoring_data # << >>
    /\ Len(active_events) = 1

\* C36: in the result of evacuation_capacity_optimizer the population
\* assigned to a center never exceeds its capacity, every zone is assigned to
\* at most one center, a zone is assigned only where it fits in what the
\* zones considered before it have left, a zone left unassigned fits in no
\* center, and the zones are considered in decreasing vulnerability.
C36_AssignmentsWithinCapacity ==
    (fn = "evacuation_capacity_optimizer" /\ fn_done) =>
        LET zones   == fn_args.population_zones
            centers == fn_args.evacuation_centers
            made    == fn_result.evacuation_assignments
            Key(v)  == IF v = "very_high" THEN 4 ELSE IF v = "high" THEN 3
                       ELSE IF v = "medium" THEN 2 ELSE 1
            ZoneOf(a) == CHOOSE i \in DOMAIN zones : zones[i].zone_id = made[a].from_zone_id
            Load(c, upto) ==
                SumOver([a \in 1..upto |->
                            IF made[a].to_zone_id = centers[c].zone_id
                            THEN made[a].population_count ELSE 0], 1..upto)
        IN  /\ \A a \in DOMAIN made :
                  /\ \E i \in DOMAIN zones : zones[i].zone_id = made[a].from_zone_id
                  /\ \E c \in DOMAIN centers : centers[c].zone_id = made[a].to_zone_id
                  /\ made[a].population_count = zones[ZoneOf(a)].population
            /\ \A c \in DOMAIN centers : Load(c, Len(made)) <= centers[c].capacity
            /\ \A a, b \in DOMAIN made : made[a].from_zone_id = made[b].from_zone_id => a = b
            /\ \A a \in DOMAIN made, c \in DOMAIN centers :
                  made[a].to_zone_id = centers[c].zone_id =>
                      made[a].population_count <= centers[c].capacity - Load(c, a - 1)
            /\ \A a, b \in DOMAIN made :
                  a < b =>
                      \/ Key(zones[ZoneOf(a)].vulnerability_score)
                            > Key(zones[ZoneOf(b)].vulnerability_score)
                      \/ /\ Key(zones[ZoneOf(a)].vulnerability_score)
                               = Key(zones[ZoneOf(b)].vulnerability_score)
                         /\ ZoneOf(a) < ZoneOf(b)
            /\ ~fn_result.error =>
                  \A i \in DOMAIN zones :
                      (\A a \in DOMAIN made : made[a].from_zone_id # zones[i].zone_id) =>
                          \A c \in DOMAIN centers :
                              zones[i].population > centers[c].capacity - Load(c, Len(made))

\* C36 witness: two zones of 70 and one center of 100; the very vulnerable
\* zone, second in the input, is assigned and the other is left out.
C36_VulnerableZoneFirst ==
    /\ fn = "evacuation_capacity_optimizer"
    /\ fn_done
    /\ Len(fn_args.population_zones) = 2
    /\ fn_args.population_zones[1].vulnerability_score = "low"
    /\ fn_args.population_zones[1].population = 70
    /\ fn_args.population_zones[2].vulnerability_score = "very_high"
    /\ fn_args.population_zones[2].population = 70
    /\ fn_args.evacuation_centers = <<[zone_id |-> "EC001", capacity |-> 100]>>
    /\ Len(fn_result.evacuation_assignments) = 1
    /\ fn_result.evacuation_assignments[1].from_zone_id = fn_args.population_zones[2].zone_id

C38_OrchestratorPlansWhenGraphPlans ==
    adapter_pc = "returned" =>
        LET toSeverity ==
                \/ ClassificationNextAction(classification) = "severity_assessment"
                \/ /\ ClassificationNextAction(classification) = "web_search_confirmation"
                   /\ confirmation # NoConfirmation
                   /\ ConfirmationNextAction(confirmation.confirmed) = "severity_assessment"
            graphPlans ==
                /\ toSeverity
                /\ EventNextAction(severity.escalation_required,
                                   classification.severity_level) = "trigger_planning_workflow"
        IN  /\ (management_phase = "complete_response") <=> graphPlans
            /\ (confirmation # NoConfirmation /\ ~confirmation.confirmed)
                   => management_phase # "complete_response"

\* C38, the state the claim excludes: the web search did not confirm the
\* detection, severity assessment asked for escalation, and the orchestrator
\* runner ran planning.
C38_PlannedUnconfirmedDetection ==
    /\ adapter_pc = "returned"
    /\ classification.threat_detected
    /\ confirmation # NoConfirmation
    /\ ~confirmation.confirmed
    /\ severity.escalation_required
    /\ management_phase = "complete_response"

====
